---------------------------- MODULE Spec2Model ----------------------------
(***************************************************************************)
(* State-machine model of the marketsense ML services:                     *)
(*   ml-services/sentiment_service.py   (Flask service, AdvancedStock-     *)
(*                                       Predictor, shared global          *)
(*                                       enhanced_predictor)               *)
(*   ml-services/prediction_service.py  (Lambda-style handler and its own  *)
(*                                       copy of AdvancedStockPredictor)   *)
(*   ml-services/prediction_lambda.py   (lightweight random generator)     *)
(*                                                                         *)
(* Numbers are fixed point.  Prices are whole currency units on input and  *)
(* cents on output (round(x, 2)); scaled values, sentiment scores and buzz *)
(* scores are thousandths (Milli); confidences are hundredths of a percent *)
(* (Centi).  Divisions truncate towards minus infinity where the Python    *)
(* code computes in binary floating point.                                 *)
(*                                                                         *)
(* The network (SentimentEnhancedLSTM) is not computed: its weights come   *)
(* from random initialisation and shuffled mini-batches, so a model is     *)
(* identified by the training call that produced it, and each forward pass *)
(* returns a value chosen nondeterministically from ModelOutputs.          *)
(***************************************************************************)
EXTENDS Integers, Sequences, FiniteSets, TLC

VARIABLES
    predictor,   \* svc -> the module-level AdvancedStockPredictor instance
    prep,        \* outcome of the last prepare_enhanced_data call
    call,        \* outcome of the last train_enhanced_model / predict_with_sentiment call
    trained,     \* svc -> tickets of the train_enhanced_model calls that returned True
    ticket,      \* number of calls / requests issued so far
    resp,        \* the last response of a prediction entry point
    pc,          \* request -> position inside train_and_predict_enhanced
    req,         \* request -> its input and locals
    rng,         \* state of prediction_lambda's module-level random generator
    fn           \* a stateless function or handler: its arguments and, once applied, its value

vars == <<predictor, prep, call, trained, ticket, resp, pc, req, rng, fn>>

-----------------------------------------------------------------------------
(* Fixed-point units *)

Milli == 10 * 100
Centi == 10 * 10

Abs(x) == IF x < 0 THEN -x ELSE x
Min(a, b) == IF a < b THEN a ELSE b
Max(a, b) == IF a > b THEN a ELSE b

\* a local variable assigned once: the value of the one-element set
The(S) == CHOOSE x \in S : TRUE

RECURSIVE SumSeq(_)
SumSeq(s) == IF s = <<>> THEN 0 ELSE Head(s) + SumSeq(Tail(s))

SeqMin(s) == CHOOSE x \in {s[i] : i \in 1..Len(s)} : \A j \in 1..Len(s) : x <= s[j]
SeqMax(s) == CHOOSE x \in {s[i] : i \in 1..Len(s)} : \A j \in 1..Len(s) : x >= s[j]

\* Python slice s[-m:]
LastN(s, m) == IF Len(s) <= m THEN s ELSE SubSeq(s, Len(s) - m + 1, Len(s))

\* integer square root, by bisection
RECURSIVE SqrtBetween(_, _, _)
SqrtBetween(x, lo, hi) ==
    IF lo >= hi THEN lo
    ELSE LET mid == (lo + hi + 1) \div 2
         IN  IF mid * mid <= x THEN SqrtBetween(x, mid, hi)
                               ELSE SqrtBetween(x, lo, mid - 1)
ISqrt(x) == SqrtBetween(x, 0, Min(x, 40000))

-----------------------------------------------------------------------------
(* Program constants *)

sequence_length == 30      \* AdvancedStockPredictor.__init__ default
MinPricePoints == 40       \* boundary check of the endpoints
MinWindows == 10           \* train_enhanced_model
ConfFloor == 35            \* calculate_enhanced_confidence clamp
ConfCeil == 92
ConfFallback == 60         \* calculate_enhanced_confidence except branch

(* Bounds of the model *)

MaxExtra == 1              \* price series have up to MinPricePoints + MaxExtra points
MaxDays == 2               \* prediction_days ranges over 0..MaxDays
MaxCalls == 3              \* calls per behaviour in the sequential specifications
MaxPrepCalls == 1          \* prepare_enhanced_data calls per behaviour in SpecPrep
MaxRequests == 1           \* requests per behaviour at the entry points
LongHorizon == 80          \* a long prediction_days for prediction_lambda

-----------------------------------------------------------------------------
(* Inputs *)

\* One sentiment_data item.  isdict = FALSE is a JSON item that is not an
\* object (item.get raises AttributeError).
SentItem(s, c, b) == [isdict |-> TRUE, sentiment_score |-> s, news_count |-> c, buzz_score |-> b]
BadItem == [isdict |-> FALSE, sentiment_score |-> 0, news_count |-> 0, buzz_score |-> 0]
Neutral == SentItem(0, 1, Milli)

PriceLens == {0, 5, sequence_length + 5, MinPricePoints - 1}
             \cup (MinPricePoints .. MinPricePoints + MaxExtra)

PriceVals(n, shape) ==
    [i \in 1..n |-> CASE shape = "const" -> 100
                      [] shape = "ramp"  -> 100 + i
                      [] shape = "fall"  -> Max(0, MinPricePoints - i)
                      [] shape = "zero"  -> 0
                      [] shape = "zigzag" -> 100 + 5 * (i % 2) + (i % 3)]

\* price_data: objects {"close": x} or plain numbers
PriceData(fmt, n, shape) == [fmt |-> fmt, vals |-> PriceVals(n, shape)]

PriceInputs ==
    {PriceData("dict", n, sh) : n \in PriceLens, sh \in {"ramp", "fall"}}
    \cup {PriceData("num", MinPricePoints, "ramp")}

SentLens(n) == {0, 3, 20, n, n + 1}

\* sentiment_data of k entries; with bad, the first one is not an object
SentData(k, score, news, bad) ==
    [i \in 1..k |-> IF bad /\ i = 1 THEN BadItem ELSE SentItem(score, news, Milli)]

-----------------------------------------------------------------------------
(* sklearn MinMaxScaler(feature_range=(0, 1)), one feature *)

UnfitScaler == [fitted |-> FALSE, lo |-> 0, hi |-> 0]

\* fit: data_min_, data_max_ of the column
ScalerFit(col) == [fitted |-> TRUE, lo |-> SeqMin(col), hi |-> SeqMax(col)]

\* a zero data range is replaced by 1 (sklearn _handle_zeros_in_scale)
ScalerRange(sc) == IF sc.hi = sc.lo THEN 1 ELSE sc.hi - sc.lo

\* transform: (x - data_min) / range, in thousandths
ScalerTransform(sc, x) == ((x - sc.lo) * Milli) \div ScalerRange(sc)

\* inverse_transform of a scaled value (thousandths), result in hundredths
\* of the column's unit
ScalerInverse(sc, s) == Centi * sc.lo + (s * ScalerRange(sc) * Centi) \div Milli

(* The three-column sentiment scaler *)

Column(feats, f) == [i \in 1..Len(feats) |-> feats[i][f]]

UnfitSentimentScaler == <<UnfitScaler, UnfitScaler, UnfitScaler>>

SentimentFit(feats) == [f \in 1..3 |-> ScalerFit(Column(feats, f))]

SentimentTransform(sc, row) == [f \in 1..3 |-> ScalerTransform(sc[f], row[f])]

-----------------------------------------------------------------------------
(* AdvancedStockPredictor *)

NoModel == 0

NewPredictor ==
    [price_scaler     |-> UnfitScaler,
     sentiment_scaler |-> UnfitSentimentScaler,
     model            |-> NoModel,
     is_trained       |-> FALSE]

\* [float(item.get('sentiment_score', 0)), int(item.get('news_count', 1)),
\*  float(item.get('buzz_score', 1))]
FeatureRow(item) == <<item.sentiment_score, item.news_count, item.buzz_score>>
NeutralRow == <<0, 1, Milli>>

\* "for _ in range(missing_count): sentiment_data.append({...})"
PadTail(sentiment_data, n) ==
    sentiment_data \o [i \in 1..(n - Len(sentiment_data)) |-> Neutral]

\* "for i in range(self.sequence_length, len(scaled_prices))": window j
\* (1-based) is rows j .. j+L-1 and its target is row j+L.
Windows(scaled, L) ==
    [j \in 1..Max(0, Len(scaled) - L) |-> SubSeq(scaled, j, j + L - 1)]
Targets(scaled, L) ==
    [j \in 1..Max(0, Len(scaled) - L) |-> scaled[j + L]]

PrepRaise(p, sentiment_data, err) ==
    [raised |-> err, price_scaler |-> p.price_scaler,
     sentiment_scaler |-> p.sentiment_scaler, sentiment_data |-> sentiment_data,
     X_price |-> <<>>, X_sentiment |-> <<>>, y |-> <<>>]

\* sentiment_service.py prepare_enhanced_data.  Returns the windows, the
\* scalers as the call leaves them and the caller's sentiment list as the
\* call leaves it.
prepare_enhanced_data(p, price_data, sentiment_data) ==
    IF price_data.vals = <<>>
    THEN PrepRaise(p, sentiment_data, "IndexError")
    ELSE
    LET prices == price_data.vals
        n      == Len(prices)
        padded == IF Len(sentiment_data) > 0 /\ Len(sentiment_data) < n
                  THEN PadTail(sentiment_data, n)
                  ELSE sentiment_data
    IN  IF Len(padded) > 0 /\ \E i \in 1..n : ~padded[i].isdict
        THEN PrepRaise(p, padded, "AttributeError")
        ELSE
        LET feats == IF Len(padded) > 0
                     THEN [i \in 1..n |-> FeatureRow(padded[i])]
                     ELSE [i \in 1..n |-> NeutralRow]
            psc   == ScalerFit(prices)
            ssc   == SentimentFit(feats)
            sp    == [i \in 1..n |-> ScalerTransform(psc, prices[i])]
            ss    == [i \in 1..n |-> SentimentTransform(ssc, feats[i])]
        IN  [raised |-> "", price_scaler |-> psc, sentiment_scaler |-> ssc,
             sentiment_data |-> padded,
             X_price |-> Windows(sp, sequence_length),
             X_sentiment |-> Windows(ss, sequence_length),
             y |-> Targets(sp, sequence_length)]

\* prediction_service.py prepare_enhanced_data, for inputs without a 'date'
\* column: the frame is built from four lists, which must have one length,
\* and every price item must be an object.
prepare_enhanced_data_ps(p, price_data, sentiment_data) ==
    LET prices == price_data.vals
        n      == Len(prices)
        k      == Len(sentiment_data)
    IN  IF n > 0 /\ price_data.fmt # "dict"
        THEN PrepRaise(p, sentiment_data, "AttributeError")
        ELSE IF \E i \in 1..k : ~sentiment_data[i].isdict
        THEN PrepRaise(p, sentiment_data, "AttributeError")
        ELSE IF k > 0 /\ k # n
        THEN PrepRaise(p, sentiment_data, "ValueError")
        ELSE IF n = 0
        THEN PrepRaise(p, sentiment_data, "ValueError")
        ELSE
        LET feats == IF k > 0
                     THEN [i \in 1..n |-> FeatureRow(sentiment_data[i])]
                     ELSE [i \in 1..n |-> NeutralRow]
            psc   == ScalerFit(prices)
            ssc   == SentimentFit(feats)
            sp    == [i \in 1..n |-> ScalerTransform(psc, prices[i])]
            ss    == [i \in 1..n |-> SentimentTransform(ssc, feats[i])]
        IN  [raised |-> "", price_scaler |-> psc, sentiment_scaler |-> ssc,
             sentiment_data |-> sentiment_data,
             X_price |-> Windows(sp, sequence_length),
             X_sentiment |-> Windows(ss, sequence_length),
             y |-> Targets(sp, sequence_length)]

Services == {"sentiment_service", "prediction_service"}

Prepare(svc, p, price_data, sentiment_data) ==
    IF svc = "sentiment_service"
    THEN prepare_enhanced_data(p, price_data, sentiment_data)
    ELSE prepare_enhanced_data_ps(p, price_data, sentiment_data)

-----------------------------------------------------------------------------
(* Confidence *)

\* "float(item.get('close', ...))" over the price list.  The copy in
\* prediction_service.py calls item.get on every entry, which raises for
\* plain numbers; the copy in sentiment_service.py accepts both shapes.
PriceItemsReadable(svc, price_data) ==
    svc = "sentiment_service" \/ price_data.fmt = "dict" \/ price_data.vals = <<>>

\* np.std(x) / np.mean(x), in thousandths, of a non-empty list with a
\* non-zero sum:  sqrt(m*Q - S^2) / S.
RelativeVolatility(xs) ==
    LET m == Len(xs)
        S == SumSeq(xs)
        Q == SumSeq([i \in 1..m |-> xs[i] * xs[i]])
    IN  (ISqrt((m * Q - S * S) * Centi * Centi) * 10) \div S

\* "max(0.2, 1.0 - (volatility / avg_price * 3))", in thousandths.  A zero
\* average gives nan or inf, and max(0.2, nan) and max(0.2, -inf) are 0.2.
VolatilityFactor(xs) ==
    IF SumSeq(xs) = 0 THEN 200
    ELSE Max(200, Milli - 3 * RelativeVolatility(xs))

\* sentiment_quality, in thousandths
SentimentQuality(n, sentiment_data) ==
    IF Len(sentiment_data) > 0
    THEN LET k    == Len(sentiment_data)
             last == LastN(sentiment_data, 7)
             cov  == Min(Milli, (k * Milli) \div n)
             news == SumSeq([i \in 1..Len(last) |-> last[i].news_count])
             nvf  == Min(Milli, (news * Centi) \div Len(last))
         IN  (cov * 7 + nvf * 3) \div 10
    ELSE 300

\* calculate_enhanced_confidence without "min(92, max(35, confidence))"
calculate_enhanced_confidence_NoClamp(svc, price_data, sentiment_data) ==
    IF \/ price_data.vals = <<>>
       \/ ~PriceItemsReadable(svc, price_data)
       \/ \E i \in 1..Len(LastN(sentiment_data, 7)) : ~LastN(sentiment_data, 7)[i].isdict
    THEN ConfFallback * Centi
    ELSE LET n    == Len(price_data.vals)
             pdq  == Min(Milli, n * 10)
             vf   == VolatilityFactor(LastN(price_data.vals, 30))
             sq   == SentimentQuality(n, sentiment_data)
         IN  pdq * 4 + vf * 3 + sq * 3

\* calculate_enhanced_confidence: hundredths of a percent.  Any exception
\* inside (an empty price list, an entry without .get) returns 60.0.
calculate_enhanced_confidence(svc, price_data, sentiment_data) ==
    IF \/ price_data.vals = <<>>
       \/ ~PriceItemsReadable(svc, price_data)
       \/ \E i \in 1..Len(LastN(sentiment_data, 7)) : ~LastN(sentiment_data, 7)[i].isdict
    THEN ConfFallback * Centi
    ELSE LET n    == Len(price_data.vals)
             pdq  == Min(Milli, n * 10)
             vf   == VolatilityFactor(LastN(price_data.vals, 30))
             sq   == SentimentQuality(n, sentiment_data)
             conf == pdq * 4 + vf * 3 + sq * 3
         IN  Min(ConfCeil * Centi, Max(ConfFloor * Centi, conf))

\* x * 0.95 ** i
RECURSIVE TimeDecay(_, _)
TimeDecay(x, i) == IF i = 0 THEN x ELSE (TimeDecay(x, i - 1) * 95) \div 100

\* "min(0.2, abs(np.mean(scores[-7:])) * 0.3)", in thousandths: this is the
\* number the services add to the percentage.
SentimentBoost(sentiment_data) ==
    IF Len(sentiment_data) > 0
    THEN LET last == LastN(sentiment_data, 7)
             mean == SumSeq([i \in 1..Len(last) |-> last[i].sentiment_score]) \div Len(last)
         IN  Min(200, (Abs(mean) * 3) \div 10)
    ELSE 0

\* confidence of day i (0-based), hundredths of a percent
DayConfidence(svc, price_data, sentiment_data, i) ==
    TimeDecay(calculate_enhanced_confidence(svc, price_data, sentiment_data), i)
    + SentimentBoost(sentiment_data) \div 10

\* "(1 - base_confidence/100) * 2 + 1", in ten-thousandths
BoundsFactor(conf) == 3 * Centi * Centi - 2 * conf

\* "round(x, 1)" of a percentage kept in hundredths
Round1(x) == ((x + 5) \div 10) * 10

\* "datetime.now().date()" as read in iteration d of a results loop, in days
\* since the date the request arrived: midnight passes after `tick` of the
\* `days` iterations (tick = 0: before the loop, during parsing or training;
\* tick = days: not at all).
Clock(tick, days) == [d \in 1..days |-> IF d <= tick THEN 0 ELSE 1]

Ticks(days) == {0, 1, days} \cap 0..days

\* one entry of the forecast; prices in cents, the date in days since the
\* request's date
ForecastDay(i, today, predicted, conf, factor, sfactor) ==
    [date            |-> today + i + 1,
     predicted_price |-> predicted,
     upper_bound     |-> (predicted * factor) \div (Centi * Centi),
     lower_bound     |-> (predicted * Centi * Centi) \div factor,
     confidence      |-> Round1(conf),
     sentiment_factor |-> sfactor]

-----------------------------------------------------------------------------
(* Training and prediction *)

\* values one forward pass of the network may return (scaled, thousandths)
ModelOutputs == {-500, 400, 1200}

\* "if not self.is_trained or self.model is None: raise ValueError"
ModelNotTrained(p) == ~p.is_trained \/ p.model = NoModel

TrainResult(ret, err, p, sentiment_data, windows) ==
    [ret |-> ret, err |-> err, predictor |-> p,
     sentiment_data |-> sentiment_data, windows |-> windows]

\* a model trained before its data was checked
train_enhanced_model_ModelFirst(svc, p, price_data, sentiment_data, tk) ==
    The({LET p1 == [p EXCEPT !.price_scaler = r.price_scaler,
                             !.sentiment_scaler = r.sentiment_scaler,
                             !.model = tk]
         IN  IF r.raised # ""
             THEN TrainResult(FALSE, r.raised, p1, r.sentiment_data, 0)
             ELSE IF Len(r.X_price) < MinWindows
             THEN TrainResult(FALSE, "InsufficientData", p1, r.sentiment_data, Len(r.X_price))
             ELSE TrainResult(TRUE, "", [p1 EXCEPT !.is_trained = TRUE],
                              r.sentiment_data, Len(r.X_price))
         : r \in {Prepare(svc, p, price_data, sentiment_data)}})

\* the point threshold applied to the number of windows
InsufficientWindows_PointThreshold(X_price) == Len(X_price) < sequence_length + MinWindows

\* an off-by-one window threshold
InsufficientWindows_OffByOne(X_price) == Len(X_price) <= MinWindows

\* "if len(X_price) < 10: raise ValueError('Insufficient data for training')"
InsufficientWindows(X_price) == Len(X_price) < MinWindows

\* train_enhanced_model, the call numbered tk.  Every exception is caught
\* and turns into "return False"; the scalers stay as prepare_enhanced_data
\* left them.
train_enhanced_model(svc, p, price_data, sentiment_data, tk) ==
    The({LET p1 == [p EXCEPT !.price_scaler = r.price_scaler,
                             !.sentiment_scaler = r.sentiment_scaler]
         IN  IF r.raised # ""
             THEN TrainResult(FALSE, r.raised, p1, r.sentiment_data, 0)
             ELSE IF InsufficientWindows(r.X_price)
             THEN TrainResult(FALSE, "InsufficientData", p1, r.sentiment_data, Len(r.X_price))
             ELSE TrainResult(TRUE, "", [p1 EXCEPT !.model = tk, !.is_trained = TRUE],
                              r.sentiment_data, Len(r.X_price))
         : r \in {Prepare(svc, p, price_data, sentiment_data)}})

PredictRaise(err) == [raised |-> err, results |-> <<>>, model |-> NoModel,
                      price_scaler |-> UnfitScaler]

\* predict_with_sentiment; outs[d] is what the network returns on day d,
\* nows[d] what the clock reads when entry d is built.
\* The result also records the model and the price scaler it was computed
\* with.
predict_with_sentiment(svc, p, price_data, sentiment_data, days_ahead, outs, nows) ==
    LET n == Len(price_data.vals)
        k == Len(sentiment_data)
    IN  IF ModelNotTrained(p) THEN PredictRaise("ModelNotTrained")
        ELSE IF n = 0 THEN PredictRaise("IndexError")
        ELSE IF ~PriceItemsReadable(svc, price_data) THEN PredictRaise("AttributeError")
        ELSE IF k >= sequence_length
                /\ \E i \in 1..sequence_length :
                       ~LastN(sentiment_data, sequence_length)[i].isdict
             THEN PredictRaise("AttributeError")
        \* scaled_recent_prices[-L:].reshape(1, L, 1)
        ELSE IF n < sequence_length THEN PredictRaise("ValueError")
        \* inverse_transform of an empty array
        ELSE IF days_ahead = 0 THEN PredictRaise("ValueError")
        ELSE IF \E i \in 1..Len(LastN(sentiment_data, 7)) :
                    ~LastN(sentiment_data, 7)[i].isdict
             THEN PredictRaise("AttributeError")
        ELSE
        [raised  |-> "",
         results |->
            [d \in 1..days_ahead |->
                LET conf == DayConfidence(svc, price_data, sentiment_data, d - 1)
                IN  ForecastDay(d - 1, nows[d],
                                ScalerInverse(p.price_scaler, outs[d]),
                                conf,
                                BoundsFactor(conf),
                                SentimentBoost(sentiment_data) * 10)],
         model |-> p.model,
         price_scaler |-> p.price_scaler]

-----------------------------------------------------------------------------
(* Initial state: the modules have just been imported *)

NoPrices == [fmt |-> "dict", vals |-> <<>>]

NoPrep ==
    [svc |-> "none", price_data |-> NoPrices, supplied |-> <<>>, raised |-> "",
     sentiment_data |-> <<>>, X_price |-> <<>>, X_sentiment |-> <<>>, y |-> <<>>,
     price_scaler |-> UnfitScaler, sentiment_scaler |-> UnfitSentimentScaler]

NoCall ==
    [op |-> "none", svc |-> "none", ticket |-> 0, points |-> 0, ret |-> FALSE,
     err |-> "", windows |-> 0, results |-> <<>>,
     before |-> NewPredictor, after |-> NewPredictor]

NoResp ==
    [entry |-> "none", points |-> 0, fmt |-> "dict", supplied |-> 0, wellformed |-> TRUE,
     days |-> 0, status |-> 0, success |-> "absent",
     predictions |-> <<>>, err |-> "", worked |-> FALSE]

Requests == {1, 2}

NoReq ==
    [price_data |-> NoPrices, own_model |-> NoModel, scaled_with |-> UnfitScaler,
     model_used |-> NoModel, inverted_with |-> UnfitScaler]

\* no stateless function under study
NoFn == [op |-> "none", args |-> <<>>, done |-> FALSE, value |-> <<>>]

\* the arguments args of the function op, not applied yet
Pending(op, args) == [op |-> op, args |-> args, done |-> FALSE, value |-> <<>>]

Init ==
    /\ fn = NoFn
    /\ predictor = [svc \in Services |-> NewPredictor]
    /\ prep = NoPrep
    /\ call = NoCall
    /\ trained = [svc \in Services |-> {}]
    /\ ticket = 0
    /\ resp = NoResp
    /\ pc = [r \in Requests |-> "idle"]
    /\ req = [r \in Requests |-> NoReq]
    /\ rng = [seed |-> 0, pos |-> 0]

\* the modules imported, and a stateless function about to be applied to one
\* of the argument tuples in inputs
InitApply(op, inputs) ==
    /\ fn \in {Pending(op, args) : args \in inputs}
    /\ predictor = [svc \in Services |-> NewPredictor]
    /\ prep = NoPrep
    /\ call = NoCall
    /\ trained = [svc \in Services |-> {}]
    /\ ticket = 0
    /\ resp = NoResp
    /\ pc = [r \in Requests |-> "idle"]
    /\ req = [r \in Requests |-> NoReq]
    /\ rng = [seed |-> 0, pos |-> 0]

\* the function op returns value; nothing else changes
Return(op, value) ==
    /\ fn.op = op
    /\ ~fn.done
    /\ fn' = [fn EXCEPT !.done = TRUE, !.value = value]
    /\ UNCHANGED <<predictor, prep, call, trained, ticket, resp, pc, req, rng>>

-----------------------------------------------------------------------------
(* Feature Preparation on its own: SpecPrep *)

PrepSentInputs(n) ==
    {SentData(k, 500, 3, bad) : k \in SentLens(n), bad \in BOOLEAN}

\* one call predictor.prepare_enhanced_data(price_data, sentiment_data)
PrepareCall(svc) ==
    /\ ticket < MaxPrepCalls
    /\ prep.svc \in {"none", svc}
    /\ ticket' = ticket + 1
    /\ \E price_data \in PriceInputs :
      \E sentiment_data \in PrepSentInputs(Len(price_data.vals)) :
        LET r == Prepare(svc, predictor[svc], price_data, sentiment_data)
        IN  /\ prep' = [svc |-> svc, price_data |-> price_data,
                        supplied |-> sentiment_data, raised |-> r.raised,
                        sentiment_data |-> r.sentiment_data,
                        X_price |-> r.X_price, X_sentiment |-> r.X_sentiment,
                        y |-> r.y, price_scaler |-> r.price_scaler,
                        sentiment_scaler |-> r.sentiment_scaler]
            /\ predictor' = [predictor EXCEPT ![svc].price_scaler = r.price_scaler,
                                              ![svc].sentiment_scaler = r.sentiment_scaler]
            /\ UNCHANGED <<call, trained, resp, pc, req, rng, fn>>

NextPrep == \E svc \in Services : PrepareCall(svc)

SpecPrep == Init /\ [][NextPrep]_vars

WellFormed(sentiment_data) == \A i \in 1..Len(sentiment_data) : sentiment_data[i].isdict

\* The windows of the last call are the n - L windows the specification describes.
WindowsAsClaimed ==
    LET n == Len(prep.price_data.vals)
        L == sequence_length
    IN  /\ prep.raised = ""
        /\ Len(prep.X_price) >= n - L
        /\ Len(prep.X_sentiment) = Len(prep.X_price)
        /\ Len(prep.y) = Len(prep.X_price)
        /\ \A j \in 1..Len(prep.X_price) :
              /\ Len(prep.X_price[j]) = L
              /\ Len(prep.X_sentiment[j]) = L
              /\ \A t \in 1..L :
                    prep.X_price[j][t] =
                        ScalerTransform(prep.price_scaler, prep.price_data.vals[j + t - 1])
              /\ prep.y[j] = ScalerTransform(prep.price_scaler, prep.price_data.vals[j + L])

\* C8: for every price series of length n >= 40 (and well-formed sentiment
\* of any length), prepare_enhanced_data yields at least n - 30 windows of
\* exactly 30 entries, window j covering positions j..j+29 with the scaled
\* price at position j+30 as its target.  Stated for both copies of
\* prepare_enhanced_data.
C8_WindowsEveryCopy ==
    (/\ prep.svc \in Services
     /\ Len(prep.price_data.vals) >= MinPricePoints
     /\ WellFormed(prep.supplied))
    => WindowsAsClaimed

\* C8 for the copy in sentiment_service.py alone
C8_WindowsSentimentService ==
    (/\ prep.svc = "sentiment_service"
     /\ Len(prep.price_data.vals) >= MinPricePoints
     /\ WellFormed(prep.supplied))
    => WindowsAsClaimed

C8_Witness ==
    /\ prep.svc = "sentiment_service"
    /\ Len(prep.price_data.vals) = MinPricePoints + 1
    /\ Len(prep.X_price) = 11
    /\ prep.price_data.vals[1] # prep.price_data.vals[2]

\* The caller's list after the call: the k supplied entries, then n - k
\* neutral entries, and windowing completed.
PaddedAsClaimed ==
    LET n == Len(prep.price_data.vals)
        k == Len(prep.supplied)
    IN  /\ prep.raised = ""
        /\ Len(prep.sentiment_data) = n
        /\ \A i \in 1..k : prep.sentiment_data[i] = prep.supplied[i]
        /\ \A i \in (k + 1)..n : prep.sentiment_data[i] = Neutral
        /\ Len(prep.X_sentiment) = Max(0, n - sequence_length)

\* C9: a non-empty sentiment series of length k supplied with n > k prices
\* is padded with exactly n - k neutral entries at the tail, in the caller's
\* own list, and windowing completes without an error.  Stated for both
\* copies of prepare_enhanced_data.
C9_PaddingEveryCopy ==
    (/\ prep.svc \in Services
     /\ Len(prep.supplied) > 0
     /\ Len(prep.supplied) < Len(prep.price_data.vals)
     /\ prep.price_data.fmt = "dict"
     /\ WellFormed(prep.supplied))
    => PaddedAsClaimed

\* C9 for the copy in sentiment_service.py alone
C9_PaddingSentimentService ==
    (/\ prep.svc = "sentiment_service"
     /\ Len(prep.supplied) > 0
     /\ Len(prep.supplied) < Len(prep.price_data.vals)
     /\ WellFormed(prep.supplied))
    => PaddedAsClaimed

-----------------------------------------------------------------------------
(* Calls on one predictor, one after the other: SpecSeq *)

SeqPriceInputs ==
    {PriceData("dict", MinPricePoints - 1, "fall"),
     PriceData("dict", MinPricePoints, "ramp"),
     PriceData("dict", MinPricePoints + MaxExtra, "ramp")}

SeqSentInputs == {SentData(0, 0, 1, FALSE), SentData(20, 500, 3, FALSE),
                  SentData(20, 500, 3, TRUE)}

\* predictor.train_enhanced_model(price_data, sentiment_data)
TrainCall(svc) ==
    /\ ticket < MaxCalls
    /\ call.svc \in {"none", svc}
    /\ ticket' = ticket + 1
    /\ \E price_data \in SeqPriceInputs, sentiment_data \in SeqSentInputs :
        LET r == train_enhanced_model(svc, predictor[svc], price_data,
                                      sentiment_data, ticket + 1)
        IN  /\ predictor' = [predictor EXCEPT ![svc] = r.predictor]
            /\ call' = [op |-> "train", svc |-> svc, ticket |-> ticket + 1,
                        points |-> Len(price_data.vals),
                        ret |-> r.ret, err |-> r.err, windows |-> r.windows,
                        results |-> <<>>,
                        before |-> predictor[svc], after |-> r.predictor]
            /\ trained' = IF r.ret
                          THEN [trained EXCEPT ![svc] = @ \cup {ticket + 1}]
                          ELSE trained
    /\ UNCHANGED <<prep, resp, pc, req, rng, fn>>

\* predictor.predict_with_sentiment(price_data, sentiment_data, days_ahead)
PredictCall(svc) ==
    /\ ticket < MaxCalls
    /\ call.svc \in {"none", svc}
    /\ ticket' = ticket + 1
    /\ \E sentiment_data \in {SentData(0, 0, 1, FALSE), SentData(20, 500, 3, FALSE)},
          out \in ModelOutputs, tick \in {0, MaxDays} :
        LET price_data == PriceData("dict", MinPricePoints, "ramp")
            r == predict_with_sentiment(svc, predictor[svc], price_data, sentiment_data,
                                        MaxDays, [d \in 1..MaxDays |-> out],
                                        Clock(tick, MaxDays))
        IN  call' = [op |-> "predict", svc |-> svc, ticket |-> ticket + 1,
                     points |-> Len(price_data.vals),
                     ret |-> (r.raised = ""), err |-> r.raised, windows |-> 0,
                     results |-> r.results,
                     before |-> predictor[svc], after |-> predictor[svc]]
    /\ UNCHANGED <<predictor, trained, prep, resp, pc, req, rng, fn>>

NextSeq == \E svc \in Services : TrainCall(svc) \/ PredictCall(svc)

SpecSeq == Init /\ [][NextSeq]_vars

\* C6: predict_with_sentiment returns a forecast only if an earlier
\* train_enhanced_model call on the same predictor returned True (and the
\* model it runs is one such call's); before any successful training it
\* raises "Model not trained" and returns no forecast.
C6_ForecastOnlyAfterTraining ==
    call.op = "predict" =>
        /\ call.ret => /\ trained[call.svc] # {}
                       /\ call.before.model \in trained[call.svc]
        /\ trained[call.svc] = {} =>
              /\ call.err = "ModelNotTrained"
              /\ call.results = <<>>

C6_Witness ==
    /\ call.op = "predict"
    /\ call.ret
    /\ Len(call.results) = MaxDays
    /\ trained[call.svc] = {1}

C6_WitnessUntrained ==
    /\ call.op = "predict"
    /\ call.ticket = 2
    /\ call.err = "ModelNotTrained"
    /\ call.before.price_scaler.fitted

\* C7: a train_enhanced_model call that returns False leaves the price
\* scaler, the sentiment scaler, the model and is_trained as they were.
C7_FailedTrainingChangesNothing ==
    (call.op = "train" /\ ~call.ret) => call.after = call.before

\* C10: training raises "Insufficient data for training" exactly when
\* prepare_enhanced_data returned fewer than 10 windows; the call then
\* creates no model and does not mark the predictor trained; with 10 or
\* more windows that error is not raised.
C10_InsufficientDataIffFewWindows ==
    call.op = "train" =>
        /\ call.err = "InsufficientData" <=>
              (call.err \notin {"AttributeError", "IndexError", "ValueError"}
               /\ call.windows < MinWindows)
        /\ call.windows >= MinWindows => call.err # "InsufficientData"
        /\ call.err = "InsufficientData" =>
              /\ ~call.ret
              /\ call.after.model = call.before.model
              /\ call.after.is_trained = call.before.is_trained

C10_Witness ==
    /\ call.op = "train"
    /\ call.err = "InsufficientData"
    /\ call.windows = MinWindows - 1
    /\ call.before.model = NoModel

C10_WitnessEnough ==
    /\ call.op = "train"
    /\ call.ret
    /\ call.windows = MinWindows

\* C11 as stated: the insufficient-data error is raised whenever fewer than
\* sequence_length + 10 (= 40) windows result from the input.
C11_FailsBelowFortyWindows ==
    (/\ call.op = "train"
     /\ call.err \notin {"AttributeError", "IndexError", "ValueError"}
     /\ call.windows < sequence_length + MinWindows)
        => call.err = "InsufficientData"

\* C11 as amended: sequence_length + 10 is the threshold on price points,
\* not on windows: when preparation itself does not fail, training raises
\* the insufficient-data error exactly when the series has fewer than
\* sequence_length + 10 points, that is fewer than 10 windows.
C11_FailsBelowFortyPoints ==
    (/\ call.op = "train"
     /\ call.err \notin {"AttributeError", "IndexError", "ValueError"})
        => /\ call.err = "InsufficientData" <=>
                 call.points < sequence_length + MinWindows
           /\ call.windows = Max(0, call.points - sequence_length)

C11_Witness ==
    /\ call.op = "train"
    /\ call.ret
    /\ call.points = sequence_length + MinWindows
    /\ call.windows < sequence_length + MinWindows

-----------------------------------------------------------------------------
(* The pipeline and the entry points: Spec *)

Pipeline(success, err, predictions, p, sentiment_data) ==
    [success |-> success, err |-> err, predictions |-> predictions,
     predictor |-> p, sentiment_data |-> sentiment_data]

\* train_and_predict_enhanced on the module's enhanced_predictor: train,
\* then predict with the same (possibly extended) sentiment list.  Every
\* exception becomes {'error': ..., 'success': False}.
train_and_predict_enhanced(svc, p, price_data, sentiment_data, prediction_days, outs, nows, tk) ==
    The({IF ~t.ret
         THEN Pipeline(FALSE, "Enhanced model training failed", <<>>,
                       t.predictor, t.sentiment_data)
         ELSE The({IF f.raised # ""
                   THEN Pipeline(FALSE, f.raised, <<>>, t.predictor, t.sentiment_data)
                   ELSE Pipeline(TRUE, "", f.results, t.predictor, t.sentiment_data)
                   : f \in {predict_with_sentiment(svc, t.predictor, price_data,
                                t.sentiment_data, prediction_days, outs, nows)}})
         : t \in {train_enhanced_model(svc, p, price_data, sentiment_data, tk)}})

\* the response with what the request held: the format and number of its
\* prices, the number of its sentiment points and whether all are objects
Response(entry, price_data, sentiment_data, days, status, success, predictions, err, worked) ==
    [entry |-> entry, points |-> Len(price_data.vals), fmt |-> price_data.fmt,
     supplied |-> Len(sentiment_data), wellformed |-> WellFormed(sentiment_data),
     days |-> days, status |-> status,
     success |-> success, predictions |-> predictions, err |-> err,
     worked |-> worked]

\* "if len(price_data) < 40" (sentiment_service.py) and
\* "if not price_data or len(price_data) < 40" (prediction_service.py)
TooFewPoints(price_data) == Len(price_data.vals) < MinPricePoints

EntryPriceInputs ==
    {PriceData("dict", n, sh) :
        n \in {5, MinPricePoints - 1, MinPricePoints, MinPricePoints + MaxExtra},
        sh \in {"ramp", "fall"}}
    \cup {PriceData("num", MinPricePoints, "ramp")}

EntrySentInputs ==
    {SentData(0, 0, 1, FALSE), SentData(3, -800, 12, FALSE),
     SentData(20, 500, 3, FALSE), SentData(3, 500, 3, TRUE),
     SentData(MinPricePoints, 500, 3, FALSE)}

EntryDays == {0, MaxDays}

OneDeployment(entry) == resp.entry \in {"none", entry}

\* sentiment_service.py: POST /predict-price-enhanced
FlaskPredict ==
    /\ ticket < MaxRequests
    /\ OneDeployment("flask")
    /\ ticket' = ticket + 1
    /\ \E price_data \in EntryPriceInputs, sentiment_data \in EntrySentInputs,
          days \in EntryDays :
        IF TooFewPoints(price_data)
        THEN /\ resp' = Response("flask", price_data, sentiment_data, days, 400, "absent", <<>>,
                                 "Need at least 40 days of price data", FALSE)
             /\ UNCHANGED <<predictor, trained>>
        ELSE \E svc \in {"sentiment_service"}, out \in ModelOutputs, tick \in Ticks(days) :
             \E r \in {train_and_predict_enhanced(svc, predictor[svc], price_data,
                          sentiment_data, days, [d \in 1..days |-> out],
                          Clock(tick, days), ticket + 1)} :
                 /\ resp' = Response("flask", price_data, sentiment_data, days, 200,
                                     IF r.success THEN "true" ELSE "false",
                                     r.predictions, r.err, TRUE)
                 /\ predictor' = [predictor EXCEPT ![svc] = r.predictor]
                 /\ trained' = IF r.predictor.model = ticket + 1
                               THEN [trained EXCEPT ![svc] = @ \cup {ticket + 1}]
                               ELSE trained
    /\ UNCHANGED <<prep, call, pc, req, rng, fn>>

\* the placeholder forecast of prediction_service.handler when no sentiment
\* is supplied: 100 + 2i, +-5, confidence 75.0
DummyPredictions(days, nows) ==
    [d \in 1..days |->
        [date |-> nows[d] + d,
         predicted_price  |-> (100 + (d - 1) * 2) * Centi,
         upper_bound      |-> (100 + (d - 1) * 2 + 5) * Centi,
         lower_bound      |-> (100 + (d - 1) * 2 - 5) * Centi,
         confidence       |-> 75 * Centi,
         sentiment_factor |-> 0]]

\* prediction_service.py: handler(event, context)
ServiceHandler ==
    /\ ticket < MaxRequests
    /\ OneDeployment("prediction_service")
    /\ ticket' = ticket + 1
    /\ \E price_data \in EntryPriceInputs, sentiment_data \in EntrySentInputs,
          days \in EntryDays :
        IF TooFewPoints(price_data)
        THEN /\ resp' = Response("prediction_service", price_data, sentiment_data, days, 400, "false", <<>>,
                                 "Need at least 40 days of price data", FALSE)
             /\ UNCHANGED <<predictor, trained>>
        ELSE IF Len(sentiment_data) > 0
        THEN \E svc \in {"prediction_service"}, out \in ModelOutputs, tick \in Ticks(days) :
             \E r \in {train_and_predict_enhanced(svc, predictor[svc], price_data,
                          sentiment_data, days, [d \in 1..days |-> out],
                          Clock(tick, days), ticket + 1)} :
                 /\ resp' = Response("prediction_service", price_data, sentiment_data, days, 200,
                                     IF r.success THEN "true" ELSE "false",
                                     r.predictions, r.err, TRUE)
                 /\ predictor' = [predictor EXCEPT ![svc] = r.predictor]
                 /\ trained' = IF r.predictor.model = ticket + 1
                               THEN [trained EXCEPT ![svc] = @ \cup {ticket + 1}]
                               ELSE trained
        ELSE \E tick \in Ticks(days) :
             /\ resp' = Response("prediction_service", price_data, sentiment_data, days, 200, "true",
                                 DummyPredictions(days, Clock(tick, days)), "", TRUE)
             /\ UNCHANGED <<predictor, trained>>
    /\ UNCHANGED <<prep, call, pc, req, rng, fn>>

-----------------------------------------------------------------------------
(* prediction_lambda.py *)

Tickers == {"AAPL", "TSLA"}

\* "random.seed(sum(ord(c) for c in ticker))"
TickerSeed(ticker) ==
    CASE ticker = "AAPL" -> 65 + 65 + 80 + 76
      [] ticker = "TSLA" -> 84 + 83 + 76 + 65
      [] OTHER -> 0

\* ticker_base_prices, in cents
TickerBasePrice(ticker) ==
    CASE ticker = "AAPL" -> 17542
      [] ticker = "TSLA" -> 19357
      [] OTHER -> 15000

\* The Mersenne Twister is replaced by a small congruential stream: what
\* the model keeps is that a draw is a function of the seed and of the
\* number of draws made since seeding.  Values are thousandths in 0..999.
Draw(seed, pos) == (seed * 7919 + pos * 104729 + 12345) % 1000

\* random.normalvariate(0, 1), in thousandths
NormalDraw(seed, pos) == (Draw(seed, pos) - 500) * 6

\* a variant for comparison: the generator is left where the invocation
\* before stopped
Reseed_Never(g, ticker) == g

\* "random.seed(sum(ord(c) for c in ticker))" on the module's generator g
Reseed(g, ticker) == [seed |-> TickerSeed(ticker), pos |-> 0]

\* draw number k (from 0) of the generator in state g
Random(g, k) == Draw(g.seed, g.pos + k)

\* x ** j by squaring; x and the result in ten-thousandths
RECURSIVE Power(_, _)
Power(x, j) ==
    IF j = 0 THEN Centi * Centi
    ELSE IF j % 2 = 1 THEN (Power(x, j - 1) * x) \div (Centi * Centi)
    ELSE The({(h * h) \div (Centi * Centi) : h \in {Power(x, j \div 2)}})

\* x * 0.9 ** i
SentimentDecay(x, i) == (x * Power(9 * Milli, i)) \div (Centi * Centi)

\* base * (1 + trend_magnitude/100) ** j; trend in hundredths of a percent
Compound(base, trend, j) ==
    (base * Power(Centi * Centi + trend, j)) \div (Centi * Centi)

LambdaBasePrice(ticker, price_data) ==
    IF Len(price_data.vals) > 0
    THEN price_data.vals[Len(price_data.vals)] * Centi
    ELSE TickerBasePrice(ticker)

\* mean of the last 7 sentiment scores, thousandths
LambdaAvgSentiment(sentiment_data) ==
    IF Len(sentiment_data) > 0
    THEN LET last == LastN(sentiment_data, 7)
         IN  SumSeq([i \in 1..Len(last) |-> last[i].sentiment_score]) \div Len(last)
    ELSE 0

\* "min(0.2, abs(avg_sentiment) * 0.3) * 100", hundredths of a percent
LambdaSentimentFactor(sentiment_data) ==
    IF Len(sentiment_data) > 0
    THEN Min(20 * Centi, Abs(LambdaAvgSentiment(sentiment_data)) * 3)
    ELSE 0

LambdaTrendDirection(g, sentiment_data) ==
    LET avg == LambdaAvgSentiment(sentiment_data)
    IN  IF Len(sentiment_data) > 0 /\ avg > 200 THEN 1
        ELSE IF Len(sentiment_data) > 0 /\ avg < -200 THEN -1
        ELSE IF Random(g, 0) > 400 THEN 1 ELSE -1

\* "random.uniform(0.3, 1.2) * trend_direction", hundredths of a percent
LambdaTrendMagnitude(g, sentiment_data) ==
    (30 + (90 * Random(g, 1)) \div Milli) * LambdaTrendDirection(g, sentiment_data)

\* "max(40, 85 - (i * 5))" plus the decayed sentiment factor
LambdaConfidence(i, sfactor) ==
    Max(40 * Centi, 85 * Centi - i * 5 * Centi) + SentimentDecay(sfactor, i)

\* "(1 - min(confidence, 90)/100) * 2 + 1", in ten-thousandths
LambdaBoundsFactor(conf) == 3 * Centi * Centi - 2 * Min(conf, 90 * Centi)

LambdaPredictions(g, ticker, price_data, sentiment_data, days, nows) ==
    LET base   == LambdaBasePrice(ticker, price_data)
        trend  == LambdaTrendMagnitude(g, sentiment_data)
        sf     == LambdaSentimentFactor(sentiment_data)
    IN  [d \in 1..days |->
            LET sigma == (base * 5 * d) \div Milli
                noise == (NormalDraw(g.seed, g.pos + 1 + d) * sigma) \div Milli
                conf  == LambdaConfidence(d - 1, sf)
            IN  ForecastDay(d - 1, nows[d], Compound(base, trend, d) + noise, conf,
                            LambdaBoundsFactor(conf), SentimentDecay(sf, d - 1))]

\* the handler reads the last price, the shape of the first entry and the
\* last 7 sentiment scores only
\* draws of one invocation: the trend direction and magnitude, one per day,
\* rsi, correlation, impact_strength and, without sentiment, data_points
LambdaDraws(sentiment_data, days) ==
    2 + days + 3 + (IF Len(sentiment_data) > 0 THEN 0 ELSE 1)

LambdaPriceInputs ==
    {NoPrices, PriceData("dict", 5, "ramp"),
     PriceData("dict", MinPricePoints - 1, "fall"),
     PriceData("num", MinPricePoints, "ramp")}

LambdaSentInputs ==
    {SentData(0, 0, 1, FALSE), SentData(3, -800, 12, FALSE),
     SentData(20, 500, 3, FALSE), SentData(3, 500, 3, TRUE)}

\* prediction_lambda.py: handler(event, context)
LambdaHandler ==
    /\ ticket < MaxRequests
    /\ OneDeployment("prediction_lambda")
    /\ ticket' = ticket + 1
    /\ \E ticker \in Tickers, price_data \in LambdaPriceInputs,
          sentiment_data \in LambdaSentInputs,
          days \in EntryDays \cup {LongHorizon} :
        IF \E i \in 1..Len(LastN(sentiment_data, 7)) : ~LastN(sentiment_data, 7)[i].isdict
        THEN /\ resp' = Response("prediction_lambda", price_data, sentiment_data, days, 500, "false", <<>>,
                                 "AttributeError", FALSE)
             /\ rng' = [Reseed(rng, ticker) EXCEPT !.pos = @ + 1]
        ELSE \E tick \in Ticks(days) :
             /\ resp' = Response("prediction_lambda", price_data, sentiment_data, days, 200, "true",
                            LambdaPredictions(Reseed(rng, ticker), ticker, price_data,
                                              sentiment_data, days, Clock(tick, days)),
                            "", TRUE)
             /\ rng' = [Reseed(rng, ticker) EXCEPT
                           !.pos = @ + LambdaDraws(sentiment_data, days)]
    /\ UNCHANGED <<predictor, trained, prep, call, pc, req, fn>>

Next == FlaskPredict \/ ServiceHandler \/ LambdaHandler

Spec == Init /\ [][Next]_vars

-----------------------------------------------------------------------------
(* Two requests inside train_and_predict_enhanced of sentiment_service.py  *)
(* at once, on the one module-level enhanced_predictor: SpecConc.  The     *)
(* steps are the statements that read or write the predictor's fields.     *)

Shared == "sentiment_service"

ConcPriceInputs ==
    {PriceData("dict", MinPricePoints, "ramp"),
     PriceData("dict", MinPricePoints + MaxExtra, "fall"),
     PriceData("dict", MinPricePoints + MaxExtra, "const")}

\* the endpoint has accepted the request and calls train_and_predict_enhanced
Begin(r) ==
    /\ pc[r] = "idle"
    /\ \E price_data \in ConcPriceInputs :
          req' = [req EXCEPT ![r] = [NoReq EXCEPT !.price_data = price_data]]
    /\ pc' = [pc EXCEPT ![r] = "fit_price"]
    /\ UNCHANGED <<predictor, prep, call, trained, ticket, resp, rng, fn>>

\* "scaled_prices = self.price_scaler.fit_transform(prices_array)"
FitPrice(r) ==
    /\ pc[r] = "fit_price"
    /\ predictor' = [predictor EXCEPT
                        ![Shared].price_scaler = ScalerFit(req[r].price_data.vals)]
    /\ pc' = [pc EXCEPT ![r] = "fit_sentiment"]
    /\ UNCHANGED <<prep, call, trained, ticket, resp, req, rng, fn>>

\* "scaled_sentiment = self.sentiment_scaler.fit_transform(sentiment_array)"
FitSentiment(r) ==
    /\ pc[r] = "fit_sentiment"
    /\ predictor' = [predictor EXCEPT
                        ![Shared].sentiment_scaler =
                            SentimentFit([i \in 1..Len(req[r].price_data.vals) |-> NeutralRow])]
    /\ pc' = [pc EXCEPT ![r] = "create_model"]
    /\ UNCHANGED <<prep, call, trained, ticket, resp, req, rng, fn>>

\* "self.model = SentimentEnhancedLSTM(...)" and the training loop on the
\* request's own windows
CreateModel(r) ==
    /\ pc[r] = "create_model"
    /\ ~InsufficientWindows(Windows(req[r].price_data.vals, sequence_length))
    /\ ticket' = ticket + 1
    /\ predictor' = [predictor EXCEPT ![Shared].model = ticket + 1]
    /\ req' = [req EXCEPT ![r].own_model = ticket + 1]
    /\ pc' = [pc EXCEPT ![r] = "set_trained"]
    /\ UNCHANGED <<prep, call, trained, resp, rng, fn>>

\* "self.is_trained = True; return True"
SetTrained(r) ==
    /\ pc[r] = "set_trained"
    /\ predictor' = [predictor EXCEPT ![Shared].is_trained = TRUE]
    /\ trained' = [trained EXCEPT ![Shared] = @ \cup {req[r].own_model}]
    /\ pc' = [pc EXCEPT ![r] = "predict_scale"]
    /\ UNCHANGED <<prep, call, ticket, resp, req, rng, fn>>

\* predict_with_sentiment: the guard and
\* "scaled_recent_prices = self.price_scaler.transform(recent_prices_array)"
PredictScale(r) ==
    /\ pc[r] = "predict_scale"
    /\ ~ModelNotTrained(predictor[Shared])
    /\ req' = [req EXCEPT ![r].scaled_with = predictor[Shared].price_scaler]
    /\ pc' = [pc EXCEPT ![r] = "predict_model"]
    /\ UNCHANGED <<predictor, prep, call, trained, ticket, resp, rng, fn>>

\* "self.model.eval()" and the forward passes "self.model(...)"
PredictModel(r) ==
    /\ pc[r] = "predict_model"
    /\ req' = [req EXCEPT ![r].model_used = predictor[Shared].model]
    /\ pc' = [pc EXCEPT ![r] = "predict_inverse"]
    /\ UNCHANGED <<predictor, prep, call, trained, ticket, resp, rng, fn>>

\* "self.price_scaler.inverse_transform(predictions_array)"
PredictInverse(r) ==
    /\ pc[r] = "predict_inverse"
    /\ req' = [req EXCEPT ![r].inverted_with = predictor[Shared].price_scaler]
    /\ pc' = [pc EXCEPT ![r] = "done"]
    /\ UNCHANGED <<predictor, prep, call, trained, ticket, resp, rng, fn>>

NextConc ==
    \E r \in Requests :
        \/ Begin(r)
        \/ FitPrice(r)
        \/ FitSentiment(r)
        \/ CreateModel(r)
        \/ SetTrained(r)
        \/ PredictScale(r)
        \/ PredictModel(r)
        \/ PredictInverse(r)

SpecConc == Init /\ [][NextConc]_vars

\* C5: a request's forecast is computed by the model trained on its own
\* data and is scaled and inverse-scaled with the scaler fit on its own
\* price series, whatever the other request does meanwhile.
C5_OwnModelAndScalers ==
    \A r \in Requests :
        pc[r] = "done" =>
            /\ req[r].model_used = req[r].own_model
            /\ req[r].scaled_with = ScalerFit(req[r].price_data.vals)
            /\ req[r].inverted_with = ScalerFit(req[r].price_data.vals)

\* alone, a request does use its own model and scaler
C5_AloneHolds ==
    \A r \in Requests :
        (pc[r] = "done" /\ \A o \in Requests \ {r} : pc[o] = "idle") =>
            /\ req[r].model_used = req[r].own_model
            /\ req[r].scaled_with = ScalerFit(req[r].price_data.vals)
            /\ req[r].inverted_with = ScalerFit(req[r].price_data.vals)

-----------------------------------------------------------------------------
(* Properties of the responses of the entry points (Spec) *)

Emitted == {resp.predictions[d] : d \in 1..Len(resp.predictions)}

\* C1 as stated: every forecast day emitted by any prediction entry point
\* carries a confidence within [35, 92].
C1_ConfidenceWithin35And92 ==
    \A day \in Emitted :
        /\ day.confidence >= ConfFloor * Centi
        /\ day.confidence <= ConfCeil * Centi

\* C1 as amended: the services emit c * 0.95^i + b rounded to one decimal,
\* with c in [35, 92] and b in [0, 0.2], so day i (0-based) lies between
\* 35 * 0.95^i - 0.1 and 92.2; prediction_lambda emits
\* max(40, 85 - 5i) + f * 0.9^i with f in [0, 20], so it lies in [40, 105].
C1_ConfidenceBounds ==
    \A d \in 1..Len(resp.predictions) :
        LET day == resp.predictions[d]
        IN  IF resp.entry = "prediction_lambda"
            THEN day.confidence >= 40 * Centi /\ day.confidence <= 105 * Centi
            ELSE /\ day.confidence >= TimeDecay(ConfFloor * Centi, d - 1) - 10
                 /\ day.confidence <= ConfCeil * Centi + 20

C1_Witness ==
    /\ resp.entry = "flask"
    /\ resp.success = "true"
    /\ Len(resp.predictions) >= 2
    /\ resp.predictions[2].confidence < ConfFloor * Centi

C1_WitnessLambda ==
    /\ resp.entry = "prediction_lambda"
    /\ \E day \in Emitted : day.confidence > ConfCeil * Centi

\* C2: upper_bound >= predicted_price >= lower_bound on every forecast day,
\* for every predicted price, zero and negative ones included.
C2_BoundsOrdered ==
    \A day \in Emitted :
        /\ day.upper_bound >= day.predicted_price
        /\ day.predicted_price >= day.lower_bound

\* for predicted prices that are not negative the order does hold
C2_BoundsOrderedNonNegative ==
    \A day \in Emitted :
        day.predicted_price >= 0 =>
            /\ day.upper_bound >= day.predicted_price
            /\ day.predicted_price >= day.lower_bound

\* C3: a request with fewer than 40 price points is rejected with status
\* 400 at every prediction entry point, before any training or price
\* generation, and gets no predictions.
C3_ShortHistoryRejected ==
    (resp.entry # "none" /\ resp.points < MinPricePoints) =>
        /\ resp.status = 400
        /\ resp.predictions = <<>>
        /\ ~resp.worked

\* the two LSTM services do reject it
C3_ShortHistoryRejectedByServices ==
    (resp.entry \in {"flask", "prediction_service"} /\ resp.points < MinPricePoints) =>
        /\ resp.status = 400
        /\ resp.predictions = <<>>
        /\ ~resp.worked

\* C4: a body with success = false always comes with a non-2xx status.
C4_FailureIsNon2xx ==
    resp.success = "false" => resp.status \notin 200..299

\* C12: a successful forecast has exactly prediction_days entries in
\* horizon order, entry i (0-indexed) dated i + 1 days after the request's
\* date, and every entry has the six fields date, predicted_price,
\* upper_bound, lower_bound, confidence and sentiment_factor.
C12_ForecastShape ==
    resp.success = "true" =>
        /\ Len(resp.predictions) = resp.days
        /\ \A d \in 1..Len(resp.predictions) :
              /\ resp.predictions[d].date = d
              /\ DOMAIN resp.predictions[d] =
                     {"date", "predicted_price", "upper_bound", "lower_bound",
                      "confidence", "sentiment_factor"}

\* the same without the dates, and with dates that never go back
C12_ForecastShapeUndated ==
    resp.success = "true" =>
        /\ Len(resp.predictions) = resp.days
        /\ \A d \in 1..Len(resp.predictions) :
              /\ DOMAIN resp.predictions[d] =
                     {"date", "predicted_price", "upper_bound", "lower_bound",
                      "confidence", "sentiment_factor"}
              /\ resp.predictions[d].date \in {d, d + 1}
              /\ d > 1 => resp.predictions[d].date > resp.predictions[d - 1].date

-----------------------------------------------------------------------------
(* calculate_enhanced_confidence on its own: SpecConfidence *)

DefaultHorizon == 7        \* days_ahead=7

ConfPriceInputs ==
    {PriceData(fmt, n, sh) :
        fmt \in {"dict", "num"},
        n \in {0, 5, sequence_length, MinPricePoints, MinPricePoints + MaxExtra, 120},
        sh \in {"const", "ramp", "fall", "zero"}}

ConfSentInputs(n) ==
    {SentData(k, 500, news, bad) :
        k \in {0, 3, n, n + 1}, news \in {0, 3, 12}, bad \in BOOLEAN}

ConfInputs ==
    {[svc |-> svc, price_data |-> price_data, sentiment_data |-> sentiment_data] :
        svc \in Services, price_data \in ConfPriceInputs,
        sentiment_data \in UNION {ConfSentInputs(n) : n \in {0, MinPricePoints, 120}}}

\* the value calculate_enhanced_confidence returns and the per-day values
\* predict_with_sentiment derives from it for days_ahead = 7
ConfidenceCall ==
    Return("calculate_enhanced_confidence",
           [base |-> calculate_enhanced_confidence(fn.args.svc, fn.args.price_data,
                                                   fn.args.sentiment_data),
            decayed |-> [d \in 1..DefaultHorizon |->
                            TimeDecay(calculate_enhanced_confidence(fn.args.svc,
                                          fn.args.price_data, fn.args.sentiment_data),
                                      d - 1)],
            days |-> [d \in 1..DefaultHorizon |->
                         DayConfidence(fn.args.svc, fn.args.price_data,
                                       fn.args.sentiment_data, d - 1)]])

InitConfidence == InitApply("calculate_enhanced_confidence", ConfInputs)

SpecConfidence == InitConfidence /\ [][ConfidenceCall]_vars

\* C13: calculate_enhanced_confidence returns a value within [35, 92] for
\* every price and sentiment input, its exception fallback included, and
\* the per-day confidence base * 0.95^i never increases with i.
C13_BaseClampedAndDecaying ==
    (fn.op = "calculate_enhanced_confidence" /\ fn.done) =>
        /\ fn.value.base >= ConfFloor * Centi
        /\ fn.value.base <= ConfCeil * Centi
        /\ fn.value.decayed[1] = fn.value.base
        /\ \A d \in 2..DefaultHorizon :
              /\ fn.value.decayed[d] <= fn.value.decayed[d - 1]
              /\ fn.value.days[d] <= fn.value.days[d - 1]

\* a series long and calm enough for the ceiling to apply
C13_Witness ==
    /\ fn.op = "calculate_enhanced_confidence"
    /\ fn.done
    /\ fn.value.base = ConfCeil * Centi
    /\ fn.value.decayed[DefaultHorizon] < fn.value.decayed[1]

C13_WitnessFloor ==
    /\ fn.done
    /\ fn.value.base = ConfFloor * Centi
    /\ fn.args.price_data.vals # <<>>

C13_WitnessFallback ==
    /\ fn.done
    /\ fn.value.base = ConfFallback * Centi
    /\ fn.args.price_data.vals = <<>>

-----------------------------------------------------------------------------
(* analyze_technical_indicators on its own: SpecIndicators *)

\* round(a / b) for b > 0
RoundDiv(a, b) == (2 * a + b) \div (2 * b)

\* "np.diff(prices)"
Deltas(prices) == [i \in 1..Len(prices) - 1 |-> prices[i + 1] - prices[i]]

RsiWindow == 14            \* window=14

\* calculate_rsi, in hundredths: 100 - 100 / (1 + avg_gain / avg_loss) is
\* 100 * gain / (gain + loss)
calculate_rsi(prices) ==
    LET deltas == LastN(Deltas(prices), RsiWindow)
        gain   == SumSeq([i \in 1..Len(deltas) |-> Max(deltas[i], 0)])
        loss   == SumSeq([i \in 1..Len(deltas) |-> Max(-deltas[i], 0)])
    IN  IF Len(prices) - 1 >= RsiWindow
        THEN IF loss = 0 THEN 100 * Centi
             ELSE RoundDiv(100 * Centi * gain, gain + loss)
        ELSE 50 * Centi

\* mean of the last w values, or of all of them when there are fewer: cents
RollingMean(prices, w) ==
    RoundDiv(SumSeq(LastN(prices, w)) * Centi, Len(LastN(prices, w)))

\* pandas rolling(window=20).std() at the last position (ddof = 1): cents
RollingStd(prices, w) ==
    LET xs == LastN(prices, w)
        m  == Len(xs)
        S  == SumSeq(xs)
        Q  == SumSeq([i \in 1..m |-> xs[i] * xs[i]])
    IN  ISqrt(((m * Q - S * S) * Centi * Centi) \div (m * (m - 1)))

NoIndicators == [returned |-> "empty"]

\* analyze_technical_indicators: prices[-1] of an empty list raises, and the
\* except clause returns {}
analyze_technical_indicators(prices) ==
    IF prices = <<>> THEN NoIndicators
    ELSE [returned        |-> "indicators",
          sma_20          |-> RollingMean(prices, 20),
          sma_50          |-> RollingMean(prices, 50),
          rsi             |-> calculate_rsi(prices),
          bollinger_upper |-> IF Len(prices) >= 20
                              THEN RollingMean(prices, 20) + 2 * RollingStd(prices, 20)
                              ELSE prices[Len(prices)] * 102,
          bollinger_lower |-> IF Len(prices) >= 20
                              THEN RollingMean(prices, 20) - 2 * RollingStd(prices, 20)
                              ELSE prices[Len(prices)] * 98,
          current_price   |-> prices[Len(prices)] * Centi]

IndicatorInputs ==
    {PriceVals(n, sh) :
        n \in {0, 1, 2, 5, 13, 14, 15, 16, 19, 20, 21, 45, 50, 51},
        sh \in {"const", "ramp", "fall", "zero", "zigzag"}}

IndicatorsCall ==
    Return("analyze_technical_indicators", analyze_technical_indicators(fn.args))

InitIndicators == InitApply("analyze_technical_indicators", IndicatorInputs)

SpecIndicators == InitIndicators /\ [][IndicatorsCall]_vars

\* C14: for every price series the RSI that analyze_technical_indicators
\* returns lies in [0, 100], and it is exactly 50 when fewer than 14 price
\* deltas are available.
C14_RsiInRange ==
    (fn.op = "analyze_technical_indicators" /\ fn.done) =>
        /\ fn.value.returned = "indicators"
        /\ fn.value.rsi >= 0
        /\ fn.value.rsi <= 100 * Centi
        /\ Len(fn.args) - 1 < RsiWindow => fn.value.rsi = 50 * Centi

\* the same for series that are not empty
C14_RsiInRangeNonEmpty ==
    (fn.op = "analyze_technical_indicators" /\ fn.done /\ fn.args # <<>>) =>
        /\ fn.value.returned = "indicators"
        /\ fn.value.rsi >= 0
        /\ fn.value.rsi <= 100 * Centi
        /\ Len(fn.args) - 1 < RsiWindow => fn.value.rsi = 50 * Centi


\* C15: for the constant series of 45 prices of 100.0 the technical
\* indicators are sma_20 = sma_50 = 100.0, rsi = 50, and Bollinger bands
\* lower = 98 and upper = 102.
C15_ConstantSeriesIndicators ==
    (fn.op = "analyze_technical_indicators" /\ fn.done
        /\ fn.args = PriceVals(45, "const")) =>
        /\ fn.value.returned = "indicators"
        /\ fn.value.sma_20 = 100 * Centi
        /\ fn.value.sma_50 = 100 * Centi
        /\ fn.value.rsi = 50 * Centi
        /\ fn.value.bollinger_lower = 98 * Centi
        /\ fn.value.bollinger_upper = 102 * Centi

\* what the code computes for that series: 44 deltas of zero make avg_loss
\* zero, so the RSI is 100, and the rolling deviation of the last 20 values
\* is zero, so both bands are at 100
C15_ConstantSeriesComputed ==
    (fn.op = "analyze_technical_indicators" /\ fn.done
        /\ fn.args = PriceVals(45, "const")) =>
        /\ fn.value.returned = "indicators"
        /\ fn.value.sma_20 = 100 * Centi
        /\ fn.value.sma_50 = 100 * Centi
        /\ fn.value.rsi = 100 * Centi
        /\ fn.value.bollinger_lower = 100 * Centi
        /\ fn.value.bollinger_upper = 100 * Centi


-----------------------------------------------------------------------------
(* analyze_sentiment_price_correlation on its own: SpecCorrelation *)

MinSentimentPoints == 5    \* len(sentiment_data) < 5

\* signed division rounding toward zero
QuotT(a, b) == IF (a < 0) = (b < 0) THEN Abs(a) \div Abs(b) ELSE -(Abs(a) \div Abs(b))

\* price_changes: percentage change between consecutive prices, in hundredths
\* of a percent
PriceChanges(prices) ==
    [i \in 1..Len(prices) - 1 |->
        QuotT((prices[i + 1] - prices[i]) * Centi * Centi, prices[i])]

\* The coefficient does not change when a series is divided by a positive
\* number: deviations too large for their squares to be summed in 32 bits
\* are divided by the least number that makes them fit.
Shrink(d) ==
    The({[i \in 1..Len(d) |-> QuotT(d[i], IF m <= lim THEN 1 ELSE m \div lim + 1)] :
            m \in {SeqMax([i \in 1..Len(d) |-> Abs(d[i])])},
            lim \in {ISqrt(2147483647 \div Max(1, Len(d)))}})

\* np.corrcoef(xs, ys)[0, 1] in thousandths; nan (a constant series) becomes 0
Corrcoef(xs, ys) ==
    The({The({IF sx = 0 \/ sy = 0 THEN 0
              ELSE QuotT(QuotT(SumSeq([i \in 1..Len(xs) |-> dx[i] * dy[i]]), sx) * Milli, sy) :
                 sx \in {ISqrt(SumSeq([i \in 1..Len(xs) |-> dx[i] * dx[i]]))},
                 sy \in {ISqrt(SumSeq([i \in 1..Len(xs) |-> dy[i] * dy[i]]))}}) :
            dx \in {Shrink(The({[i \in 1..Len(xs) |-> Len(xs) * xs[i] - s] : s \in {SumSeq(xs)}}))},
            dy \in {Shrink(The({[i \in 1..Len(ys) |-> Len(ys) * ys[i] - s] : s \in {SumSeq(ys)}}))}})

InsufficientSentiment ==
    [correlation |-> 0, impact_strength |-> "low",
     analysis |-> "Insufficient sentiment data"]

AnalysisFailed ==
    [correlation |-> 0, impact_strength |-> "unknown", analysis |-> "Analysis failed"]

\* the result record for a correlation over data_points aligned pairs
CorrelationResult(correlation, data_points) ==
    [correlation     |-> correlation,
     impact_strength |-> IF Abs(correlation) > 500 THEN "high"
                         ELSE IF Abs(correlation) > 300 THEN "medium" ELSE "low",
     analysis        |-> IF correlation > 300
                         THEN "Strong positive correlation: sentiment tends to predict price direction"
                         ELSE IF correlation < -300
                         THEN "Negative correlation: sentiment often contrarian to price moves"
                         ELSE "Weak correlation: sentiment has limited predictive power",
     data_points     |-> data_points]

\* a variant for comparison: the early return only for an empty or absent
\* series
TooFewSentimentPoints_EmptyOnly(sentiment_data) == sentiment_data = <<>>

\* the early return of both copies
TooFewSentimentPoints(sentiment_data) == Len(sentiment_data) < MinSentimentPoints

\* analyze_sentiment_price_correlation(price_data, sentiment_data) of the
\* module svc.  sentiment_service reads price_data[0] and accepts plain
\* numbers; prediction_service calls item.get on every price.  An exception
\* (IndexError, AttributeError, ZeroDivisionError) gives AnalysisFailed.
analyze_sentiment_price_correlation(svc, price_data, sentiment_data) ==
    IF TooFewSentimentPoints(sentiment_data) THEN InsufficientSentiment
    ELSE IF svc = "sentiment_service" /\ price_data.vals = <<>> THEN AnalysisFailed
    ELSE IF svc = "prediction_service" /\ price_data.fmt # "dict" /\ price_data.vals # <<>>
         THEN AnalysisFailed
    ELSE IF \E i \in 1..Len(price_data.vals) - 1 : price_data.vals[i] = 0 THEN AnalysisFailed
    ELSE IF \E i \in 1..Len(sentiment_data) : ~sentiment_data[i].isdict THEN AnalysisFailed
    ELSE LET price_changes == PriceChanges(price_data.vals)
             sentiments == [i \in 1..Len(sentiment_data) |-> sentiment_data[i].sentiment_score]
             min_length == Min(Len(sentiments), Len(price_changes))
         IN  CorrelationResult(
                 IF min_length > 3
                 THEN Corrcoef(SubSeq(sentiments, 1, min_length),
                               SubSeq(price_changes, 1, min_length))
                 ELSE 0,
                 min_length)

\* sentiment_data of k entries whose score moves: rising by step, or
\* alternating around zero
SentTrend(k, step, bad) ==
    [i \in 1..k |-> IF bad /\ i = 1 THEN BadItem
                    ELSE SentItem(IF step = 0 THEN 300 * (2 * (i % 2) - 1) ELSE step * i, 3, Milli)]

CorrPriceInputs ==
    {PriceData(fmt, n, sh) :
        fmt \in {"dict", "num"}, n \in {0, 1, 4, 5, 6, 9},
        sh \in {"const", "ramp", "fall", "zero", "zigzag"}}

CorrSentInputs ==
    {SentTrend(k, step, bad) :
        k \in 0..MinSentimentPoints + 1, step \in {-100, 0, 100}, bad \in BOOLEAN}
    \cup {SentData(k, 500, 3, FALSE) : k \in {3, 4, 5}}

CorrInputs ==
    {[svc |-> svc, price_data |-> price_data, sentiment_data |-> sentiment_data] :
        svc \in Services, price_data \in CorrPriceInputs,
        sentiment_data \in CorrSentInputs}

CorrelationCall ==
    Return("analyze_sentiment_price_correlation",
           analyze_sentiment_price_correlation(fn.args.svc, fn.args.price_data,
                                               fn.args.sentiment_data))

InitCorrelation == InitApply("analyze_sentiment_price_correlation", CorrInputs)

SpecCorrelation == InitCorrelation /\ [][CorrelationCall]_vars

\* C16: with fewer than 5 sentiment points (an empty or absent series
\* included) analyze_sentiment_price_correlation returns correlation 0 and
\* impact strength 'low' whatever the price series is, and always the same
\* result.
C16_LowImpactBelowFivePoints ==
    (fn.op = "analyze_sentiment_price_correlation" /\ fn.done
        /\ Len(fn.args.sentiment_data) < 5) =>
        /\ fn.value.correlation = 0
        /\ fn.value.impact_strength = "low"
        /\ fn.value = InsufficientSentiment

\* four moving sentiment points against six moving prices, which correlate
\* strongly once the early return is passed
C16_Witness ==
    /\ fn.op = "analyze_sentiment_price_correlation" /\ fn.done
    /\ Len(fn.args.sentiment_data) = 4
    /\ fn.args.sentiment_data = SentTrend(4, 100, FALSE)
    /\ fn.args.price_data = PriceData("dict", 6, "ramp")
    /\ fn.value = InsufficientSentiment


-----------------------------------------------------------------------------
(* Sentiment analysis: sentiment_lambda.py and POST /analyze-sentiment of   *)
(* sentiment_service.py: SpecSentiment.  Scores and confidences are in      *)
(* thousandths.                                                             *)

MaxProcessed == 20         \* headlines[:20]

positive_words ==
    {"growth", "profit", "rise", "gain", "up", "bullish", "increase", "higher",
     "positive", "jump"}
negative_words ==
    {"drop", "fall", "loss", "down", "bearish", "decline", "lower", "negative",
     "risk", "concern"}

\* the lists of the single-text branch
text_positive_words == positive_words \ {"jump"}
text_negative_words == negative_words \ {"concern"}

Themes == {"Earnings", "Partnerships", "Regulation", "Innovation", "Market"}

financial_keywords(theme) ==
    CASE theme = "Earnings"     -> {"earnings", "profit", "revenue", "sales"}
      [] theme = "Partnerships" -> {"partnership", "deal", "acquisition", "merger"}
      [] theme = "Regulation"   -> {"regulation", "regulatory", "compliance", "sec"}
      [] theme = "Innovation"   -> {"innovation", "technology", "ai", "digital"}
      [] theme = "Market"       -> {"market", "trading", "volatility", "price"}

\* A JSON value in the place of a headline or a text.  A string is the set
\* of keywords its lower-cased text contains and id, the rest of its text;
\* the empty string has no keyword; anything else is not a string.
Str(words, id) == [type |-> "str", empty |-> FALSE, words |-> words, id |-> id]
EmptyStr == [type |-> "str", empty |-> TRUE, words |-> {}, id |-> 0]
NonStr(id) == [type |-> "other", empty |-> FALSE, words |-> {}, id |-> id]

\* "word in headline.lower()": 'ai' is found inside 'gain'
Contains(h, word) == word \in h.words \/ (word = "ai" /\ "gain" \in h.words)

Count(h, words) == Cardinality({w \in words : Contains(h, w)})

\* "if not headline or not isinstance(headline, str): continue"
Skipped(h) == h.type # "str" \/ h.empty

\* a variant for comparison: any negative keyword makes the headline negative
KeywordLabel_AnyNegative(pos_count, neg_count) ==
    IF neg_count > 0 THEN "negative"
    ELSE IF pos_count > 0 THEN "positive" ELSE "neutral"

KeywordLabel(pos_count, neg_count) ==
    IF pos_count > neg_count THEN "positive"
    ELSE IF neg_count > pos_count THEN "negative" ELSE "neutral"

\* the score of a label; u is the value of random.uniform(-0.2, 0.2)
KeywordScore(label, pos_count, neg_count, u) ==
    CASE label = "positive" -> Min(900, 500 + Abs(pos_count - neg_count) * 100)
      [] label = "negative" -> Max(-900, -500 - Abs(neg_count - pos_count) * 100)
      [] OTHER -> u

\* values of random.uniform(-0.2, 0.2), of 0.7 + random.uniform(0, 0.2) and
\* of random.uniform(-0.5, 0.8) (hundredths)
UniformDraws == {-200, -1, 150, 200}
ConfidenceDraws == {700, 900}
ThemeDraws == {-50, 80}

\* one entry of results
KeywordResult(h, pos_words, neg_words, u, confidence) ==
    The({[headline        |-> h,
          sentiment_score |-> KeywordScore(label, Count(h, pos_words), Count(h, neg_words), u),
          label           |-> label,
          confidence      |-> confidence] :
            label \in {KeywordLabel(Count(h, pos_words), Count(h, neg_words))}})

\* the positions of headlines[:20] that the loop does not skip, in order
RECURSIVE KeptPositions(_, _)
KeptPositions(headlines, i) ==
    IF i > Min(Len(headlines), MaxProcessed) THEN <<>>
    ELSE (IF Skipped(headlines[i]) THEN <<>> ELSE <<i>>) \o KeptPositions(headlines, i + 1)

\* theme_headlines, as positions of the whole list
ThemeHeadlines(headlines, theme) ==
    {i \in 1..Len(headlines) :
        \E k \in financial_keywords(theme) : Contains(headlines[i], k)}

\* key_themes: the themes with a keyword in some headline, each with its
\* sentiment (hundredths)
KeyThemes(headlines, sentiments) ==
    {[theme |-> t, sentiment |-> sentiments[t]] :
        t \in {th \in Themes : ThemeHeadlines(headlines, th) # {}}}

ErrorResponse(status, message) ==
    [kind |-> "error", statusCode |-> status, json |-> TRUE, success |-> "false",
     error |-> message]

\* overall sentiment, categories, the lengths of the two summaries and
\* analysis_metadata of results; success is the body's success field
\* ("absent" when there is none)
HeadlineResponse(entry, headlines, results, sentiments, success) ==
    LET n     == Len(results)
        total == SumSeq([i \in 1..n |-> results[i].sentiment_score])
        pos   == Cardinality({i \in 1..n : results[i].sentiment_score > 200})
        neg   == Cardinality({i \in 1..n : results[i].sentiment_score < -200})
        neu   == Cardinality({i \in 1..n : /\ -200 <= results[i].sentiment_score
                                           /\ results[i].sentiment_score <= 200})
    IN  [kind               |-> "headlines",
         statusCode         |-> 200,
         json               |-> TRUE,
         success            |-> success,
         overall_sentiment  |-> IF n = 0 THEN 0 ELSE RoundDiv(total, n),
         headline_results   |-> results,
         positive_summary   |-> IF entry = "flask" /\ pos > 0 THEN 3 ELSE Min(pos, 3),
         negative_summary   |-> IF entry = "flask" /\ neg > 0 THEN 2 ELSE Min(neg, 2),
         key_themes         |-> KeyThemes(headlines, sentiments),
         market_impact      |-> IF n > 0 /\ total > 100 * n THEN "positive"
                                ELSE IF n > 0 /\ total < -100 * n THEN "negative"
                                ELSE "neutral",
         total_headlines     |-> Len(headlines),
         processed_headlines |-> n,
         positive_count      |-> pos,
         negative_count      |-> neg,
         neutral_count       |-> neu]

\* "' '.join(headlines)" raises TypeError when an item is not a string
JoinRaises(headlines) == \E i \in 1..Len(headlines) : headlines[i].type # "str"


\* The parsed request body.  json is "absent" (no body), "invalid" (not
\* JSON), "scalar" (null, a number or a boolean), "array", "string" or
\* "object"; keys are the names among 'headlines' and 'text' that
\* "name in body" finds.
Body(json, keys, headlines, text) ==
    [json |-> json, keys |-> keys, headlines |-> headlines, text |-> text]

\* the value of body['headlines']: a list, or something else
ListOf(items) == [type |-> "list", items |-> items]
NotAList == [type |-> "other", items |-> <<>>]

PlainBody(json, keys) == Body(json, keys, NotAList, EmptyStr)
HeadlinesBody(headlines) == Body("object", {"headlines"}, headlines, EmptyStr)
TextBody(text) == Body("object", {"text"}, NotAList, text)

\* the Lambda event: a dict with httpMethod and body, or not a dict
Event(httpMethod, body) == [isdict |-> TRUE, httpMethod |-> httpMethod, body |-> body]
NoEvent == [isdict |-> FALSE, httpMethod |-> "", body |-> PlainBody("absent", {})]

\* error_response(message) of sentiment_lambda.py
error_response(message) == ErrorResponse(500, message)

Healthy ==
    [kind |-> "health", statusCode |-> 200, json |-> TRUE, success |-> "true"]

\* the CORS preflight answer, whose body is the empty string
Preflight ==
    [kind |-> "options", statusCode |-> 200, json |-> FALSE, success |-> "absent"]

\* results of the keyword loop; the entry at position i takes the draw
\* draws[(i % 2) + 1] when its counts tie
KeywordResults(headlines, draws, confidence) ==
    The({[j \in 1..Len(kept) |->
            KeywordResult(headlines[kept[j]], positive_words, negative_words,
                          draws[(kept[j] % 2) + 1], confidence)] :
            kept \in {KeptPositions(headlines, 1)}})

\* sentiment_lambda.py: handler(event, context)
sentiment_lambda_handler(event, draws, confidence, theme_sentiment) ==
    IF ~event.isdict THEN error_response("AttributeError")
    ELSE IF event.body.json = "invalid" THEN error_response("JSONDecodeError")
    ELSE IF event.httpMethod = "OPTIONS" THEN Preflight
    ELSE IF event.body.json = "scalar" THEN error_response("TypeError")
    ELSE IF event.body.json \in {"array", "string"} /\ event.body.keys # {}
         THEN error_response("AttributeError")
    ELSE IF "headlines" \in event.body.keys
    THEN IF event.body.headlines.type # "list" \/ event.body.headlines.items = <<>>
         THEN error_response("Valid headlines array required")
         ELSE IF JoinRaises(event.body.headlines.items) THEN error_response("TypeError")
         ELSE HeadlineResponse("sentiment_lambda", event.body.headlines.items,
                  KeywordResults(event.body.headlines.items, draws, confidence),
                  [t \in Themes |-> theme_sentiment], "true")
    ELSE IF "text" \in event.body.keys
    THEN IF Skipped(event.body.text)
         THEN error_response("Valid text string required")
         ELSE [kind |-> "text", statusCode |-> 200, json |-> TRUE, success |-> "true",
               result |-> KeywordResult(event.body.text, text_positive_words,
                                        text_negative_words, draws[1], confidence)]
    ELSE Healthy

\* what the FinBERT pipeline may answer for a text; the last one is the
\* except branch of analyze_financial_sentiment
FinbertOutputs ==
    {[label |-> "positive", confidence |-> 950, score |-> 950],
     [label |-> "positive", confidence |-> 150, score |-> 150],
     [label |-> "negative", confidence |-> 800, score |-> -800],
     [label |-> "neutral", confidence |-> 600, score |-> 0],
     [label |-> "neutral", confidence |-> 0, score |-> 0]}

FinbertResults(headlines, outs) ==
    The({[j \in 1..Len(kept) |->
            [headline        |-> headlines[kept[j]],
             sentiment_score |-> outs[(kept[j] % 2) + 1].score,
             label           |-> outs[(kept[j] % 2) + 1].label,
             confidence      |-> outs[(kept[j] % 2) + 1].confidence]] :
            kept \in {KeptPositions(headlines, 1)}})

\* a key theme's sentiment: the mean FinBERT score of its first three
\* headlines, in hundredths (0 for a theme without headlines, which is not
\* listed)
ThemeMean(headlines, theme, outs) ==
    LET M     == ThemeHeadlines(headlines, theme)
        first == {i \in M : Cardinality({j \in M : j < i}) < 3}
    IN  IF M = {} THEN 0
        ELSE RoundDiv(SumSeq([i \in 1..Len(headlines) |->
                                IF i \in first THEN outs[(i % 2) + 1].score ELSE 0]),
                      10 * Cardinality(first))

\* the error bodies of the Flask endpoints carry no success field
FlaskError(status, message) ==
    [ErrorResponse(status, message) EXCEPT !.success = "absent"]

\* sentiment_service.py: analyze_sentiment_endpoint(), data = request.get_json()
analyze_sentiment_endpoint(data, outs) ==
    IF data.json = "invalid" THEN FlaskError(500, "Internal server error")
    ELSE IF data.json = "absent" THEN FlaskError(400, "Headlines array required")
    ELSE IF data.json = "scalar" THEN FlaskError(500, "Internal server error")
    ELSE IF "headlines" \notin data.keys THEN FlaskError(400, "Headlines array required")
    ELSE IF data.json \in {"array", "string"} THEN FlaskError(500, "Internal server error")
    ELSE IF data.headlines.type # "list" \/ data.headlines.items = <<>>
         THEN FlaskError(400, "Valid headlines array required")
    ELSE IF JoinRaises(data.headlines.items) THEN FlaskError(500, "Internal server error")
    ELSE HeadlineResponse("flask", data.headlines.items,
                          FinbertResults(data.headlines.items, outs),
                          [t \in Themes |-> ThemeMean(data.headlines.items, t, outs)],
                          "absent")


\* Headline texts.  G holds 'growth' only; GR and GRC add one and two
\* negative keywords; GPR has two positive keywords and a negative one; GP5
\* has five positive keywords and D5 five negative ones; M has a theme
\* keyword only; "" is the empty string and X is not a string.
HeadlineKinds == <<"G", "GR", "GRC", "GPR", "GP5", "D5", "M", "", "X">>

Headline(kind, id) ==
    CASE kind = "G"   -> Str({"growth"}, id)
      [] kind = "GR"  -> Str({"growth", "risk"}, id)
      [] kind = "GRC" -> Str({"growth", "risk", "concern"}, id)
      [] kind = "GPR" -> Str({"growth", "profit", "risk"}, id)
      [] kind = "GP5" -> Str({"growth", "profit", "rise", "gain", "up"}, id)
      [] kind = "D5"  -> Str({"drop", "fall", "loss", "down", "decline", "market"}, id)
      [] kind = "M"   -> Str({"regulation"}, id)
      [] kind = ""    -> EmptyStr
      [] OTHER        -> NonStr(id)

\* n headlines of the kinds a and b in turn, then the kinds of tail
HeadlineList(a, b, n, tail) ==
    [i \in 1..n + Len(tail) |->
        IF i > n THEN Headline(tail[i - n], i)
        ELSE Headline(IF i % 2 = 1 THEN a ELSE b, i)]

HeadlineLists ==
    {HeadlineList(HeadlineKinds[a], HeadlineKinds[b], n, tail) :
        a \in 1..Len(HeadlineKinds), b \in 1..Len(HeadlineKinds),
        n \in {1, 3, MaxProcessed, MaxProcessed + 2},
        tail \in {<<>>, <<"X">>, <<"D5">>}}

SentimentBodies ==
    {PlainBody(json, {}) : json \in {"absent", "invalid", "scalar", "array", "string", "object"}}
    \cup {PlainBody(json, keys) : json \in {"array", "string"}, keys \in {{"headlines"}, {"text"}}}
    \cup {HeadlinesBody(NotAList), HeadlinesBody(ListOf(<<>>))}
    \cup {HeadlinesBody(ListOf(items)) : items \in HeadlineLists}
    \cup {TextBody(Headline(HeadlineKinds[k], 1)) : k \in 1..Len(HeadlineKinds)}
    \cup {Body("object", {"headlines", "text"}, ListOf(HeadlineList("G", "G", 1, <<>>)),
               Headline("D5", 1))}

SentimentEvents ==
    {NoEvent}
    \cup {Event("POST", body) : body \in SentimentBodies}
    \cup {Event("OPTIONS", body) :
            body \in {PlainBody("absent", {}), PlainBody("invalid", {}),
                      HeadlinesBody(ListOf(HeadlineList("G", "G", 1, <<>>)))}}

\* one invocation of sentiment_lambda.handler
SentimentLambdaHandler ==
    /\ fn = NoFn
    /\ \E event \in SentimentEvents, draws \in [1..2 -> UniformDraws],
          confidence \in ConfidenceDraws, theme_sentiment \in ThemeDraws :
        fn' = [op |-> "sentiment_lambda.handler", args |-> event, done |-> TRUE,
               value |-> sentiment_lambda_handler(event, draws, confidence, theme_sentiment)]
    /\ UNCHANGED <<predictor, prep, call, trained, ticket, resp, pc, req, rng>>

\* one request POST /analyze-sentiment
AnalyzeSentimentEndpoint ==
    /\ fn = NoFn
    /\ \E data \in SentimentBodies, outs \in [1..2 -> FinbertOutputs] :
        fn' = [op |-> "analyze_sentiment_endpoint", args |-> Event("POST", data),
               done |-> TRUE, value |-> analyze_sentiment_endpoint(data, outs)]
    /\ UNCHANGED <<predictor, prep, call, trained, ticket, resp, pc, req, rng>>

NextSentiment == SentimentLambdaHandler \/ AnalyzeSentimentEndpoint

SpecSentiment == Init /\ [][NextSentiment]_vars


\* the request is a POST of a JSON object with a non-empty headlines list
HeadlinesGiven ==
    /\ fn.done
    /\ fn.args.isdict /\ fn.args.httpMethod = "POST"
    /\ fn.args.body.json = "object" /\ "headlines" \in fn.args.body.keys
    /\ fn.args.body.headlines.type = "list"
    /\ fn.args.body.headlines.items # <<>>

GivenHeadlines == fn.args.body.headlines.items

\* C17: under the keyword-heuristic analyzer, for any batch of headlines
\* each containing the word "growth", every headline is labelled 'positive'
\* and the overall_sentiment is greater than 0.
C17_GrowthAlwaysPositive ==
    (/\ fn.op = "sentiment_lambda.handler" /\ HeadlinesGiven
     /\ \A i \in 1..Len(GivenHeadlines) : Contains(GivenHeadlines[i], "growth")) =>
        /\ fn.value.kind = "headlines"
        /\ \A j \in 1..Len(fn.value.headline_results) :
              fn.value.headline_results[j].label = "positive"
        /\ fn.value.overall_sentiment > 0

\* C17, amended: when each headline contains "growth" and more positive
\* keywords than negative ones, each of the first 20 headlines is labelled
\* 'positive' with a score of at least 0.6, and the overall_sentiment is
\* greater than 0.
C17_GrowthOutweighingNegatives ==
    (/\ fn.op = "sentiment_lambda.handler" /\ HeadlinesGiven
     /\ \A i \in 1..Len(GivenHeadlines) :
           /\ Contains(GivenHeadlines[i], "growth")
           /\ Count(GivenHeadlines[i], positive_words)
                > Count(GivenHeadlines[i], negative_words)) =>
        /\ fn.value.kind = "headlines"
        /\ Len(fn.value.headline_results) = Min(Len(GivenHeadlines), 20)
        /\ \A j \in 1..Len(fn.value.headline_results) :
              /\ fn.value.headline_results[j].headline = GivenHeadlines[j]
              /\ fn.value.headline_results[j].label = "positive"
              /\ fn.value.headline_results[j].sentiment_score >= 600
        /\ fn.value.overall_sentiment > 0

\* 22 headlines with "growth", every other one with a second positive
\* keyword and a negative one
C17_Witness ==
    /\ fn.op = "sentiment_lambda.handler" /\ HeadlinesGiven
    /\ GivenHeadlines = HeadlineList("G", "GPR", 22, <<>>)
    /\ fn.value.kind = "headlines"
    /\ fn.value.overall_sentiment = 600
    /\ fn.value.processed_headlines = 20

\* C18: for any headlines list the headline endpoint processes at most 20
\* entries, all from the first 20 positions; processed_headlines is the
\* number of non-empty strings among those, and positive_count +
\* negative_count + neutral_count equals processed_headlines.
C18_ProcessedCounts ==
    (fn.op \in {"sentiment_lambda.handler", "analyze_sentiment_endpoint"}
        /\ HeadlinesGiven) =>
        /\ fn.value.kind = "headlines"
        /\ Len(fn.value.headline_results) <= 20
        /\ \A j \in 1..Len(fn.value.headline_results) :
              \E i \in 1..Min(Len(GivenHeadlines), 20) :
                  fn.value.headline_results[j].headline = GivenHeadlines[i]
        /\ fn.value.processed_headlines = Len(fn.value.headline_results)
        /\ fn.value.processed_headlines =
              Cardinality({i \in 1..Min(Len(GivenHeadlines), 20) :
                              GivenHeadlines[i].type = "str" /\ ~GivenHeadlines[i].empty})
        /\ fn.value.positive_count + fn.value.negative_count + fn.value.neutral_count
              = fn.value.processed_headlines

\* the same for lists whose entries are all strings
C18_ProcessedCountsOfStrings ==
    (/\ fn.op \in {"sentiment_lambda.handler", "analyze_sentiment_endpoint"}
     /\ HeadlinesGiven
     /\ \A i \in 1..Len(GivenHeadlines) : GivenHeadlines[i].type = "str") =>
        /\ fn.value.kind = "headlines"
        /\ Len(fn.value.headline_results) <= 20
        /\ \A j \in 1..Len(fn.value.headline_results) :
              \E i \in 1..Min(Len(GivenHeadlines), 20) :
                  fn.value.headline_results[j].headline = GivenHeadlines[i]
        /\ fn.value.processed_headlines = Len(fn.value.headline_results)
        /\ fn.value.processed_headlines =
              Cardinality({i \in 1..Min(Len(GivenHeadlines), 20) : ~GivenHeadlines[i].empty})
        /\ fn.value.positive_count + fn.value.negative_count + fn.value.neutral_count
              = fn.value.processed_headlines

\* C19: headlines present but not a non-empty list, or text present but not
\* a non-empty string, is answered with status 400 and not with a 5xx status.
C19_MalformedInputIs400 ==
    (/\ fn.op = "sentiment_lambda.handler" /\ fn.done
     /\ fn.args.isdict /\ fn.args.httpMethod = "POST" /\ fn.args.body.json = "object"
     /\ \/ /\ "headlines" \in fn.args.body.keys
           /\ (fn.args.body.headlines.type # "list" \/ fn.args.body.headlines.items = <<>>)
        \/ /\ "headlines" \notin fn.args.body.keys
           /\ "text" \in fn.args.body.keys
           /\ Skipped(fn.args.body.text)) =>
        /\ fn.value.statusCode = 400
        /\ fn.value.statusCode \notin 500..599

\* what sentiment_lambda.py does with such input: status 500 from
\* error_response, with the validation message
C19_MalformedInputIs500 ==
    (/\ fn.op = "sentiment_lambda.handler" /\ fn.done
     /\ fn.args.isdict /\ fn.args.httpMethod = "POST" /\ fn.args.body.json = "object"
     /\ \/ /\ "headlines" \in fn.args.body.keys
           /\ (fn.args.body.headlines.type # "list" \/ fn.args.body.headlines.items = <<>>)
        \/ /\ "headlines" \notin fn.args.body.keys
           /\ "text" \in fn.args.body.keys
           /\ Skipped(fn.args.body.text)) =>
        /\ fn.value.statusCode = 500
        /\ fn.value.error \in {"Valid headlines array required", "Valid text string required"}

\* C20: every Lambda handler answers every event with a statusCode and a
\* body, and an unexpected failure (anything but the validation answer 400)
\* gives status 500 with success = false and an error message.
C20_UnexpectedFailureIs500 ==
    (/\ resp.entry \in {"prediction_lambda", "prediction_service"}
     /\ resp.success = "false"
     /\ resp.status # 400) =>
        /\ resp.status = 500
        /\ resp.err # ""

\* sentiment_lambda.handler answers every event: 200, or 500 with
\* success = false and a message; only the preflight answer has a body that
\* is not JSON
C20_SentimentLambdaAnswers ==
    (fn.op = "sentiment_lambda.handler" /\ fn.done) =>
        /\ fn.value.statusCode \in {200, 500}
        /\ fn.value.json \/ fn.value.kind = "options"
        /\ fn.value.statusCode = 500 <=> fn.value.kind = "error"
        /\ fn.value.kind = "error" => fn.value.success = "false" /\ fn.value.error # ""


-----------------------------------------------------------------------------
(* Properties of the requests as a whole *)

\* C21: every prediction entry point takes plain-number prices as it takes
\* {"close": number} objects: a request with at least 40 plain-number prices
\* (well-formed sentiment, a horizon of at least one day) succeeds.
C21_PlainNumbersAccepted ==
    (/\ resp.entry # "none"
     /\ resp.fmt = "num" /\ resp.points >= 40 /\ resp.wellformed /\ resp.days >= 1) =>
        resp.success = "true"

\* the Flask endpoint and prediction_lambda do take plain numbers
C21_PlainNumbersAcceptedElsewhere ==
    (/\ resp.entry \in {"flask", "prediction_lambda"}
     /\ resp.fmt = "num" /\ resp.points >= 40 /\ resp.wellformed /\ resp.days >= 1) =>
        resp.success = "true"

\* prediction_service.handler takes the same prices as objects, with no
\* sentiment or with one sentiment point per price
C21_WrappedAccepted ==
    (/\ resp.entry = "prediction_service"
     /\ resp.fmt = "dict" /\ resp.points >= 40 /\ resp.wellformed /\ resp.days >= 1
     /\ resp.supplied \in {0, resp.points}) =>
        resp.success = "true"


-----------------------------------------------------------------------------
(* The training loop of train_enhanced_model, epoch by epoch: SpecTraining. *)
(* fn.value holds the locals epoch, best_loss and patience_counter, the     *)
(* predictor's is_trained, and at where the control is.                      *)

Patience == 20             \* "if patience_counter >= 20"

\* the epochs argument: 30 from train_and_predict, 80 and 100 by default
EpochBudgets == {30, 80, 100}

\* avg_loss of an epoch: a number, inf or nan
Loss(kind, v) == [kind |-> kind, v |-> v]
Losses == {Loss("num", v) : v \in 0..3} \cup {Loss("inf", 0), Loss("nan", 0)}

\* float "<": false whenever nan is involved
LossLess(a, b) ==
    /\ a.kind # "nan" /\ b.kind # "nan"
    /\ a.kind = "num"
    /\ b.kind = "inf" \/ a.v < b.v

\* a variant for comparison: the loop breaks only when the counter has passed
\* the patience
OutOfPatience_Late(patience_counter) == patience_counter > Patience

\* "if patience_counter >= 20: break"
OutOfPatience(patience_counter) == patience_counter >= Patience

\* "best_loss = float('inf'); patience_counter = 0; self.model.train()"
TrainBegin ==
    /\ fn.op = "training_loop" /\ ~fn.done /\ fn.value = <<>>
    /\ fn' = [fn EXCEPT !.value =
                 [at |-> "loop", epoch |-> 0, ran |-> 0, best_loss |-> Loss("inf", 0),
                  patience_counter |-> 0,
                  is_trained |-> fn.args.is_trained, ret |-> FALSE]]
    /\ UNCHANGED <<predictor, prep, call, trained, ticket, resp, pc, req, rng>>

\* one iteration of "for epoch in range(epochs)" with the epoch loss
\* avg_loss; ran counts the iterations
TrainEpoch ==
    /\ fn.op = "training_loop" /\ ~fn.done /\ fn.value # <<>>
    /\ fn.value.at = "loop"
    /\ fn.value.ran < fn.args.epochs
    /\ \E avg_loss \in Losses :
       \E better \in {LossLess(avg_loss, fn.value.best_loss)} :
       \E counter \in {IF better THEN 0 ELSE fn.value.patience_counter + 1} :
          fn' = [fn EXCEPT !.value =
                    [@ EXCEPT !.epoch = fn.value.ran,
                              !.ran = fn.value.ran + 1,
                              !.best_loss = IF better THEN avg_loss ELSE @,
                              !.patience_counter = counter,
                              !.at = IF OutOfPatience(counter) \/ fn.value.ran + 1 = fn.args.epochs
                                     THEN "after" ELSE "loop"]]
    /\ UNCHANGED <<predictor, prep, call, trained, ticket, resp, pc, req, rng>>

\* epochs = 0: the loop body never runs
TrainNoEpoch ==
    /\ fn.op = "training_loop" /\ ~fn.done /\ fn.value # <<>>
    /\ fn.value.at = "loop"
    /\ fn.args.epochs = 0
    /\ fn' = [fn EXCEPT !.value = [@ EXCEPT !.at = "after"]]
    /\ UNCHANGED <<predictor, prep, call, trained, ticket, resp, pc, req, rng>>

\* an exception inside the loop: "except Exception: return False"
TrainRaise ==
    /\ fn.op = "training_loop" /\ ~fn.done /\ fn.value # <<>>
    /\ fn.value.at = "loop"
    /\ fn' = [fn EXCEPT !.done = TRUE,
                        !.value = [@ EXCEPT !.at = "returned", !.ret = FALSE]]
    /\ UNCHANGED <<predictor, prep, call, trained, ticket, resp, pc, req, rng>>

\* "self.is_trained = True; return True"
TrainFinish ==
    /\ fn.op = "training_loop" /\ ~fn.done /\ fn.value # <<>>
    /\ fn.value.at = "after"
    /\ fn' = [fn EXCEPT !.done = TRUE,
                        !.value = [@ EXCEPT !.at = "returned", !.is_trained = TRUE,
                                            !.ret = TRUE]]
    /\ UNCHANGED <<predictor, prep, call, trained, ticket, resp, pc, req, rng>>

TrainingInputs ==
    {[epochs |-> e, is_trained |-> b] : e \in EpochBudgets \cup {0}, b \in BOOLEAN}

InitTraining == InitApply("training_loop", TrainingInputs)

NextTraining == TrainBegin \/ TrainEpoch \/ TrainNoEpoch \/ TrainRaise \/ TrainFinish

\* the call runs on: a step that can be taken is taken
SpecTraining == InitTraining /\ [][NextTraining]_vars /\ WF_vars(NextTraining)


\* the loop's bounds: at most epochs iterations, the counter within the
\* patience, control inside the loop only while patience is left, the loop
\* left only out of patience or with every epoch run, and is_trained changed
\* only by a call that has left the loop and returns True
TrainingLoopBounds ==
    (fn.op = "training_loop" /\ fn.value # <<>>) =>
        /\ fn.value.ran <= fn.args.epochs
        /\ fn.value.patience_counter <= 20
        /\ fn.value.at = "loop" => fn.value.patience_counter < 20
        /\ fn.value.at = "after" =>
              fn.value.patience_counter = 20 \/ fn.value.ran = fn.args.epochs
        /\ fn.value.is_trained # fn.args.is_trained =>
              fn.value.at = "returned" /\ fn.value.ret

\* an epoch resets the counter exactly when its loss is strictly below the
\* best loss so far, and adds one to it otherwise
TrainingEpochStep ==
    (fn.op = "training_loop" /\ fn.value # <<>> /\ fn'.value.ran = fn.value.ran + 1) =>
        IF fn'.value.best_loss # fn.value.best_loss
        THEN /\ LossLess(fn'.value.best_loss, fn.value.best_loss)
             /\ fn'.value.patience_counter = 0
        ELSE fn'.value.patience_counter = fn.value.patience_counter + 1

\* C22: the training loop always terminates: it runs at most epochs epochs
\* and halts at the end of the first epoch at which the loss has failed to
\* improve strictly for 20 consecutive epochs; the counter is reset to 0 on
\* every strict improvement and never exceeds 20, and is_trained is set only
\* after the loop has ended.
C22_TrainingLoopTerminates ==
    /\ []TrainingLoopBounds
    /\ [][TrainingEpochStep]_vars
    /\ <>(fn.op = "training_loop" /\ fn.done)

\* a call stopped early: 20 epochs without improvement before the budget
\* was used up, then is_trained set
C22_Witness ==
    /\ fn.op = "training_loop" /\ fn.done
    /\ fn.value.ret /\ fn.value.is_trained /\ ~fn.args.is_trained
    /\ fn.value.patience_counter = 20
    /\ fn.value.ran < fn.args.epochs
    /\ fn.value.ran > 20

\* a call that ran all its epochs
C22_WitnessAllEpochs ==
    /\ fn.op = "training_loop" /\ fn.done
    /\ fn.value.ret
    /\ fn.value.ran = fn.args.epochs
    /\ fn.args.epochs = 80
    /\ fn.value.patience_counter < 20


-----------------------------------------------------------------------------
(* The forecasting loop of predict_with_sentiment, day by day:              *)
(* SpecForecast.  fn.value holds current_price_seq, current_sentiment_seq   *)
(* and predictions after day iterations.  A sentiment entry carries, beside *)
(* its three channels, whether it comes from the caller's data.             *)

\* scaled_recent_prices[-L:], with the scaler fit on the same series
InitialPriceWindow(prices) ==
    The({LastN([i \in 1..Len(prices) |-> ScalerTransform(sc, prices[i])], sequence_length) :
            sc \in {ScalerFit(prices)}})

\* scaled_sentiment: the last L items scaled, or zeros when fewer than L
\* items are given
InitialSentimentWindow(sentiment_data) ==
    IF Len(sentiment_data) >= sequence_length
    THEN The({[i \in 1..sequence_length |->
                 [row  |-> SentimentTransform(sc,
                              FeatureRow(LastN(sentiment_data, sequence_length)[i])),
                  real |-> TRUE]] :
                sc \in {SentimentFit([i \in 1..Len(sentiment_data) |->
                                         FeatureRow(sentiment_data[i])])}})
    ELSE [i \in 1..sequence_length |-> [row |-> <<0, 0, 0>>, real |-> FALSE]]

\* a variant for comparison: the new value is appended and nothing dropped
Slide_KeepOldest(window, x) == Append(window, x)

\* torch.cat([window[:, 1:, :], x], dim=1)
Slide(window, x) == Tail(window) \o <<x>>

\* "new_sentiment_seq[:, -1, 0] *= decay_factor"
DecayLast(window, day) ==
    [window EXCEPT ![Len(window)].row[1] = SentimentDecay(@, day + 1)]

\* torch.FloatTensor([[[0, 1, 1]]])
FutureSlot == [row |-> <<0, Milli, Milli>>, real |-> FALSE]

\* values the forward pass may return on the given day: any of ModelOutputs
\* on short horizons, a value of its own for each day on long ones
DayOutputs(day, days_ahead) ==
    IF days_ahead <= 3 THEN ModelOutputs ELSE {10 * (day + 1)}

\* "self.model.eval(); predictions = []; current_price_seq = ...;
\* current_sentiment_seq = ..."
ForecastBegin ==
    /\ fn.op = "forecast_loop" /\ ~fn.done /\ fn.value = <<>>
    /\ fn' = [fn EXCEPT !.value =
                 [day |-> 0,
                  current_price_seq     |-> InitialPriceWindow(fn.args.prices),
                  current_sentiment_seq |-> InitialSentimentWindow(fn.args.sentiment_data),
                  predictions |-> <<>>]]
    /\ UNCHANGED <<predictor, prep, call, trained, ticket, resp, pc, req, rng>>

\* one iteration of "for day in range(days_ahead)"
ForecastStep ==
    /\ fn.op = "forecast_loop" /\ ~fn.done /\ fn.value # <<>>
    /\ fn.value.day < fn.args.days_ahead
    /\ \E next_price_scaled \in DayOutputs(fn.value.day, fn.args.days_ahead) :
          fn' = [fn EXCEPT !.value =
                    [day |-> fn.value.day + 1,
                     predictions |-> Append(fn.value.predictions, next_price_scaled),
                     current_price_seq |-> Slide(fn.value.current_price_seq, next_price_scaled),
                     current_sentiment_seq |->
                        Slide(DecayLast(fn.value.current_sentiment_seq, fn.value.day),
                              FutureSlot)]]
    /\ UNCHANGED <<predictor, prep, call, trained, ticket, resp, pc, req, rng>>

\* the loop is over
ForecastEnd ==
    /\ fn.op = "forecast_loop" /\ ~fn.done /\ fn.value # <<>>
    /\ fn.value.day = fn.args.days_ahead
    /\ fn' = [fn EXCEPT !.done = TRUE]
    /\ UNCHANGED <<predictor, prep, call, trained, ticket, resp, pc, req, rng>>

ForecastInputs ==
    {[prices |-> PriceVals(n, sh), sentiment_data |-> sentiment_data, days_ahead |-> d] :
        n \in {sequence_length, MinPricePoints + 1}, sh \in {"ramp", "zigzag"},
        sentiment_data \in {SentData(0, 0, 1, FALSE), SentData(3, 500, 3, FALSE),
                            SentTrend(sequence_length, 100, FALSE),
                            SentTrend(MinPricePoints + 1, -100, FALSE)},
        d \in {0, 1, 3, DefaultHorizon, sequence_length + 3}}

InitForecast == InitApply("forecast_loop", ForecastInputs)

NextForecast == ForecastBegin \/ ForecastStep \/ ForecastEnd

SpecForecast == InitForecast /\ [][NextForecast]_vars

\* the two windows have sequence_length entries, the output list has one
\* prediction per step, and the last min(day, L) entries of the price window
\* are the last predictions in order
ForecastWindows ==
    (fn.op = "forecast_loop" /\ fn.value # <<>>) =>
        /\ Len(fn.value.current_price_seq) = sequence_length
        /\ Len(fn.value.current_sentiment_seq) = sequence_length
        /\ Len(fn.value.predictions) = fn.value.day
        /\ \A j \in 1..Min(fn.value.day, sequence_length) :
              fn.value.current_price_seq[sequence_length - j + 1]
                = fn.value.predictions[fn.value.day - j + 1]

\* a step drops the oldest price and appends its prediction
ForecastSlide ==
    (fn.op = "forecast_loop" /\ fn.value # <<>> /\ fn'.value.day = fn.value.day + 1) =>
        /\ Len(fn'.value.predictions) = fn.value.day + 1
        /\ \A j \in 1..sequence_length - 1 :
              fn'.value.current_price_seq[j] = fn.value.current_price_seq[j + 1]
        /\ fn'.value.current_price_seq[sequence_length]
              = fn'.value.predictions[fn.value.day + 1]

\* C23: after every forecast step the price window and the sentiment window
\* hold exactly sequence_length entries; the price window is the previous
\* one without its oldest entry, followed by the step's prediction, so its
\* last min(i + 1, sequence_length) entries are the predictions in order, and
\* the output list holds i + 1 predictions.
C23_WindowsSlide == []ForecastWindows /\ [][ForecastSlide]_vars

\* more steps than the window is long: the window holds predictions only
C23_Witness ==
    /\ fn.op = "forecast_loop" /\ fn.done
    /\ fn.value.day = sequence_length + 3
    /\ fn.value.current_price_seq = SubSeq(fn.value.predictions, 4, sequence_length + 3)

\* three steps with different predictions behind 27 prices of the request
C23_WitnessShort ==
    /\ fn.op = "forecast_loop" /\ fn.done
    /\ fn.value.day = 3
    /\ fn.value.predictions = <<-500, 1200, 400>>
    /\ fn.value.current_price_seq[sequence_length - 3]
         = InitialPriceWindow(fn.args.prices)[sequence_length]


\* the positions of the window that hold the caller's sentiment
RealPositions(window) == {j \in 1..Len(window) : window[j].real}

\* on step i the score of the last real entry of the window is multiplied by
\* 0.9^(i+1), the window slides and a neutral entry is appended
LastRealEntryDecays ==
    (fn.op = "forecast_loop" /\ fn.value # <<>> /\ fn'.value.day = fn.value.day + 1) =>
        LET before == fn.value.current_sentiment_seq
            after  == fn'.value.current_sentiment_seq
            r      == CHOOSE j \in RealPositions(before) :
                          \A k \in RealPositions(before) : k <= j
        IN  /\ after[sequence_length] = FutureSlot
            /\ (RealPositions(before) # {} /\ r >= 2) =>
                  after[r - 1].row[1] = SentimentDecay(before[r].row[1], fn.value.day + 1)

\* C24: on every forecast step i (0-indexed), before the sentiment window
\* slides, the sentiment-score channel of the last real (caller-derived)
\* entry in the window is multiplied by 0.9^(i+1), and then a neutral entry
\* is appended for the new future slot.
C24_LastRealEntryDecays == [][LastRealEntryDecays]_vars

\* what the loop does: the score of the window's last entry is multiplied,
\* which is a caller's entry on step 0 only and the neutral entry of the
\* step before (score 0) afterwards; every other entry is left as it is
LastEntryDecays ==
    (fn.op = "forecast_loop" /\ fn.value # <<>> /\ fn'.value.day = fn.value.day + 1) =>
        LET before == fn.value.current_sentiment_seq
            after  == fn'.value.current_sentiment_seq
        IN  /\ after[sequence_length] = FutureSlot
            /\ after[sequence_length - 1].row[1]
                 = SentimentDecay(before[sequence_length].row[1], fn.value.day + 1)
            /\ \A j \in 1..sequence_length - 2 : after[j] = before[j + 1]
            /\ fn.value.day >= 1 =>
                  \A j \in RealPositions(after) :
                      after[j].row[1] = before[j + 1].row[1]

C24_LastEntryDecays == [][LastEntryDecays]_vars

-----------------------------------------------------------------------------
(* The sentiment boost of the confidence *)

\* "round(sentiment_confidence_boost * 100, 1)", the sentiment_factor the
\* services report for every day, hundredths of a percent
ReportedSentimentFactor(sentiment_data) == SentimentBoost(sentiment_data) * 10

\* C25: the sentiment boost added to each day's confidence is
\* min(0.2, |mean of the last 7 sentiment scores| * 0.3) * 100, a value in
\* [0, 20] on the percent scale; the same undecayed boost is added for every
\* horizon day i, and it equals the sentiment_factor reported for that day.
C25_BoostIsReportedFactor ==
    (fn.op = "calculate_enhanced_confidence" /\ fn.done) =>
        \A d \in 1..DefaultHorizon :
            /\ fn.value.days[d] - fn.value.decayed[d]
                 = ReportedSentimentFactor(fn.args.sentiment_data)
            /\ fn.value.days[d] - fn.value.decayed[d] >= 0
            /\ fn.value.days[d] - fn.value.decayed[d] <= 20 * Centi

\* what the services add: the fraction min(0.2, |mean| * 0.3) itself, at most
\* 0.2 of a percentage point, the same on every day, a hundredth of the
\* sentiment_factor they report
C25_BoostIsFraction ==
    (fn.op = "calculate_enhanced_confidence" /\ fn.done) =>
        \A d \in 1..DefaultHorizon :
            /\ fn.value.days[d] - fn.value.decayed[d]
                 = ReportedSentimentFactor(fn.args.sentiment_data) \div Centi
            /\ fn.value.days[d] - fn.value.decayed[d] = fn.value.days[1] - fn.value.decayed[1]
            /\ fn.value.days[d] - fn.value.decayed[d] <= 20

\* prediction_lambda adds the factor on the percent scale, and decays it:
\* day i gets, and reports, sentiment_factor * 0.9^i (the factor is kept
\* here as computed, before its own rounding to one decimal)
C25_LambdaBoostDecays ==
    (resp.entry = "prediction_lambda" /\ resp.success = "true"
     /\ resp.supplied > 0 /\ resp.wellformed) =>
        \A d \in 1..Len(resp.predictions) :
            /\ resp.predictions[d].sentiment_factor
                 = SentimentDecay(resp.predictions[1].sentiment_factor, d - 1)
            /\ resp.predictions[d].confidence
                 = Round1(Max(40 * Centi, 85 * Centi - (d - 1) * 5 * Centi)
                          + resp.predictions[d].sentiment_factor)

-----------------------------------------------------------------------------
(* The impact strength of the correlation analysis *)

WeakCorrelationText == "Weak correlation: sentiment has limited predictive power"

\* the impact strength follows |r| and 'low' goes with the weak-correlation
\* text, r being 0 below 4 aligned pairs
ImpactFollowsCorrelation(result, sentiment_data, price_data) ==
    /\ result.impact_strength \in {"high", "medium", "low"}
    /\ result.impact_strength = "high" <=> Abs(result.correlation) > 500
    /\ result.impact_strength = "medium" <=>
          (Abs(result.correlation) > 300 /\ Abs(result.correlation) <= 500)
    /\ result.impact_strength = "low" <=> result.analysis = WeakCorrelationText
    /\ Min(Len(sentiment_data), Len(price_data.vals) - 1) < 4 => result.correlation = 0

\* C26: for every price series and every sentiment series of at least 5
\* points (price series that contain a zero price included),
\* analyze_sentiment_price_correlation returns an impact strength that is one
\* of high, medium, low: high when |r| > 0.5, medium when 0.3 < |r| <= 0.5,
\* low otherwise, r being 0 when fewer than 4 aligned pairs exist; 'low' is
\* returned exactly when the analysis text is the weak-correlation statement.
\* Stated for series of objects with at least one price.
C26_ImpactIsHighMediumLow ==
    (/\ fn.op = "analyze_sentiment_price_correlation"
     /\ fn.done
     /\ Len(fn.args.sentiment_data) >= MinSentimentPoints
     /\ WellFormed(fn.args.sentiment_data)
     /\ fn.args.price_data.fmt = "dict"
     /\ fn.args.price_data.vals # <<>>) =>
        ImpactFollowsCorrelation(fn.value, fn.args.sentiment_data, fn.args.price_data)

\* the same for series in which no price but the last is zero
C26_ImpactWithoutZeroPrice ==
    (/\ fn.op = "analyze_sentiment_price_correlation"
     /\ fn.done
     /\ Len(fn.args.sentiment_data) >= MinSentimentPoints
     /\ WellFormed(fn.args.sentiment_data)
     /\ fn.args.price_data.fmt = "dict"
     /\ fn.args.price_data.vals # <<>>
     /\ \A i \in 1..Len(fn.args.price_data.vals) - 1 : fn.args.price_data.vals[i] # 0) =>
        ImpactFollowsCorrelation(fn.value, fn.args.sentiment_data, fn.args.price_data)

\* a division by a zero price ends in the except branch: impact 'unknown'
C26_ZeroPriceIsUnknown ==
    (/\ fn.op = "analyze_sentiment_price_correlation"
     /\ fn.done
     /\ Len(fn.args.sentiment_data) >= MinSentimentPoints
     /\ \E i \in 1..Len(fn.args.price_data.vals) - 1 : fn.args.price_data.vals[i] = 0) =>
        fn.value = AnalysisFailed

-----------------------------------------------------------------------------
(* The response of train_and_predict_enhanced: SpecPipeline *)

\* 'data_points' of a correlation result; the early return and the except
\* branch carry none
DataPoints(result) ==
    IF "data_points" \in DOMAIN result THEN result.data_points ELSE -1

\* the dictionary train_and_predict_enhanced returns on a module whose
\* predictor is new: the forecast, sentiment_analysis and the two counts of
\* model_metrics.  sentiment_data is one list object throughout: what
\* prepare_enhanced_data appended to it during training is there when
\* predict_with_sentiment, analyze_sentiment_price_correlation and len() read
\* it.
PipelineResponse(svc, price_data, sentiment_data, prediction_days, out) ==
    The({IF ~r.success
         THEN [success |-> FALSE, error |-> r.err]
         ELSE [success |-> TRUE,
               predictions |-> r.predictions,
               sentiment_analysis |->
                   analyze_sentiment_price_correlation(svc, price_data, r.sentiment_data),
               training_data_points |-> Len(price_data.vals),
               sentiment_data_points |-> Len(r.sentiment_data)]
         : r \in {train_and_predict_enhanced(svc, NewPredictor, price_data, sentiment_data,
                      prediction_days, [d \in 1..prediction_days |-> out],
                      [d \in 1..prediction_days |-> 0], 1)}})

PipelineInputs ==
    {[svc |-> svc, price_data |-> PriceData(fmt, n, sh),
      sentiment_data |-> sentiment_data, prediction_days |-> days, out |-> 400] :
        svc \in Services, fmt \in {"dict", "num"},
        n \in {MinPricePoints, MinPricePoints + 1}, sh \in {"ramp", "fall", "zigzag"},
        sentiment_data \in
            {SentData(k, score, news, FALSE) :
                k \in {0, 1, 3, 20, MinPricePoints - 1, MinPricePoints, MinPricePoints + 1},
                score \in {-800, 500}, news \in {3, 12}},
        days \in {1, 3}}

PipelineCall ==
    Return("train_and_predict_enhanced",
           PipelineResponse(fn.args.svc, fn.args.price_data, fn.args.sentiment_data,
                            fn.args.prediction_days, fn.args.out))

InitPipeline == InitApply("train_and_predict_enhanced", PipelineInputs)

SpecPipeline == InitPipeline /\ [][PipelineCall]_vars

\* a successful call of the pipeline with fewer sentiment points than prices
ShortSentimentServed ==
    /\ fn.op = "train_and_predict_enhanced"
    /\ fn.done
    /\ fn.value.success
    /\ Len(fn.args.sentiment_data) > 0
    /\ Len(fn.args.sentiment_data) < Len(fn.args.price_data.vals)

\* the confidence of every day is the one computed from sentiment_data
ConfidenceFrom(sentiment_data) ==
    \A d \in 1..Len(fn.value.predictions) :
        fn.value.predictions[d].confidence
          = Round1(DayConfidence(fn.args.svc, fn.args.price_data, sentiment_data, d - 1))

\* C27: in train_and_predict_enhanced the confidence of a forecast is
\* derived from the sentiment series as the caller supplied it, also when
\* fewer sentiment points than price points were supplied: the coverage term
\* is min(1, supplied count / price count) and the boost uses the mean of
\* the last 7 supplied scores.
C27_ConfidenceFromSuppliedSeries ==
    (fn.op = "train_and_predict_enhanced" /\ fn.done /\ fn.value.success) =>
        ConfidenceFrom(fn.args.sentiment_data)

\* what the pipeline does: the confidence is computed from the list as
\* training left it, which holds one entry per price
C27_ConfidenceFromPaddedSeries ==
    (fn.op = "train_and_predict_enhanced" /\ fn.done /\ fn.value.success) =>
        ConfidenceFrom(IF ShortSentimentServed
                       THEN PadTail(fn.args.sentiment_data, Len(fn.args.price_data.vals))
                       ELSE fn.args.sentiment_data)

\* C28: model_metrics.sentiment_data_points equals the number of sentiment
\* points the caller supplied, and sentiment_analysis.data_points equals
\* min(supplied sentiment count, price count - 1), for every supplied
\* sentiment length, lengths shorter than the price series included.
C28_CountsOfSuppliedSeries ==
    (/\ fn.op = "train_and_predict_enhanced" /\ fn.done /\ fn.value.success
     /\ Len(fn.args.sentiment_data) > 0) =>
        /\ fn.value.sentiment_data_points = Len(fn.args.sentiment_data)
        /\ fn.value.sentiment_analysis.impact_strength # "unknown" =>
              DataPoints(fn.value.sentiment_analysis)
                = Min(Len(fn.args.sentiment_data), Len(fn.args.price_data.vals) - 1)

\* what the pipeline reports: a series that was not empty counts as many
\* points as there are prices, at least
C28_CountsOfPaddedSeries ==
    (/\ fn.op = "train_and_predict_enhanced" /\ fn.done /\ fn.value.success
     /\ Len(fn.args.sentiment_data) > 0) =>
        /\ fn.value.sentiment_data_points
             = Max(Len(fn.args.sentiment_data), Len(fn.args.price_data.vals))
        /\ fn.value.sentiment_analysis.impact_strength # "unknown" =>
              DataPoints(fn.value.sentiment_analysis) = Len(fn.args.price_data.vals) - 1

-----------------------------------------------------------------------------
(* Invocations of prediction_lambda in one process: SpecLambda *)

MaxInvocations == 3

\* technical_indicators and sentiment_analysis of the response; the draws
\* follow those of the forecast
LambdaIndicators(g, ticker, price_data, sentiment_data, days) ==
    [current_price   |-> LambdaBasePrice(ticker, price_data),
     rsi             |-> 40 * Centi + 3 * Random(g, 2 + days),
     correlation     |-> Random(g, 3 + days) - 300,
     impact_strength |-> <<"low", "medium", "high">>[(Random(g, 4 + days) * 3) \div Milli + 1],
     data_points     |-> IF Len(sentiment_data) > 0 THEN Len(sentiment_data)
                         ELSE 20 + (Random(g, 5 + days) * 81) \div Milli]

\* what the response holds besides dates and timestamps, computed with the
\* module's generator as the invocation finds it
LambdaOutcome(g, body) ==
    The({[predictions |-> LambdaPredictions(seeded, body.ticker, body.price_data,
                              body.sentiment_data, body.prediction_days,
                              [d \in 1..body.prediction_days |-> 0]),
          indicators  |-> LambdaIndicators(seeded, body.ticker, body.price_data,
                              body.sentiment_data, body.prediction_days)]
         : seeded \in {Reseed(g, body.ticker)}})

LambdaBodies ==
    {[ticker |-> ticker, price_data |-> price_data, sentiment_data |-> sentiment_data,
      prediction_days |-> days] :
        ticker \in Tickers,
        price_data \in {NoPrices, PriceData("dict", 5, "ramp")},
        sentiment_data \in {SentData(0, 0, 1, FALSE), SentData(3, 100, 3, FALSE),
                            SentData(3, -800, 12, FALSE)},
        days \in {1, 2}}

\* one invocation: the response is recorded after those before it, and the
\* generator is left as many draws further as the handler made
LambdaInvoke ==
    /\ fn.op = "prediction_lambda"
    /\ Len(fn.value) < MaxInvocations
    /\ \E body \in LambdaBodies :
          /\ fn' = [fn EXCEPT !.value =
                       Append(@, [body |-> body, outcome |-> LambdaOutcome(rng, body)])]
          /\ rng' = [Reseed(rng, body.ticker) EXCEPT
                        !.pos = @ + LambdaDraws(body.sentiment_data, body.prediction_days)]
    /\ UNCHANGED <<predictor, prep, call, trained, ticket, resp, pc, req>>

InitLambda == InitApply("prediction_lambda", {<<>>})

SpecLambda == InitLambda /\ [][LambdaInvoke]_vars

\* C29: the prediction_lambda handler is deterministic per request: two
\* invocations with the same request body return the same predicted_price,
\* bounds, confidence, sentiment_factor, technical indicators and
\* correlation values, whatever other invocations ran in between in the same
\* process.
C29_SameBodySameOutcome ==
    fn.op = "prediction_lambda" =>
        \A i, j \in 1..Len(fn.value) :
            fn.value[i].body = fn.value[j].body =>
                fn.value[i].outcome = fn.value[j].outcome

\* the same body before and after an invocation for another ticker, whose
\* outcome is a different one and which left the generator elsewhere
C29_Witness ==
    /\ fn.op = "prediction_lambda"
    /\ Len(fn.value) = 3
    /\ fn.value[1].body = fn.value[3].body
    /\ fn.value[2].body.ticker # fn.value[1].body.ticker
    /\ fn.value[2].body.prediction_days # fn.value[1].body.prediction_days
    /\ fn.value[2].body.sentiment_data = fn.value[1].body.sentiment_data
    /\ fn.value[2].body.price_data = fn.value[1].body.price_data
    /\ fn.value[2].outcome.indicators # fn.value[1].outcome.indicators
    /\ fn.value[1].body.sentiment_data = <<>>

-----------------------------------------------------------------------------
(* The boundary check and the number of windows *)

\* C30: with the default sequence_length of 30, every request that passes
\* the 40-point boundary check yields at least 10 training windows, so the
\* "Insufficient data for training" failure is never reached from the
\* prediction endpoints.  Whatever else stops feature preparation (items
\* that cannot be read, lists of different lengths) is another failure.
C30_FortyPointsGiveTenWindows ==
    (/\ call.op = "train"
     /\ ~TooFewPoints([fmt |-> "dict", vals |-> [i \in 1..call.points |-> 0]])) =>
        /\ call.err # "InsufficientData"
        /\ call.err = "" => /\ call.windows >= MinWindows
                            /\ call.windows = call.points - sequence_length
                            /\ call.ret

\* the boundary itself: 40 points, 10 windows, trained
C30_Witness ==
    /\ call.op = "train"
    /\ call.points = MinPricePoints
    /\ call.windows = MinWindows
    /\ call.ret

\* one point below the boundary the failure is there
C30_WitnessBelow ==
    /\ call.op = "train"
    /\ call.points = MinPricePoints - 1
    /\ call.err = "InsufficientData"

=============================================================================
